---------------------------- MODULE Spec2Model ----------------------------
(***************************************************************************)
(* Verification model of the line-geometry-tool scripts:                   *)
(*   src/vector_master.py  (vector algebra, linear dependence, menu)       *)
(*   src/line_master.py    (line constructors, derived properties, menu)   *)
(*   src/triangle_height.py (height of a triangle, interactive main)       *)
(*                                                                         *)
(* Python floats are modelled by exact values                              *)
(*        <<n, d, e, r>>   standing for   (n/d) * 10^e * sqrt(r)           *)
(* with d > 0, gcd(n,d) = 1, d coprime to 10, n not a multiple of 10 and   *)
(* r square-free, so that every value has one representation.  The three   *)
(* non-finite floats are <<1,0,0,1>> (inf), <<-1,0,0,1>> (-inf) and        *)
(* <<0,0,0,1>> (nan).  Arithmetic is exact: rounding is not modelled,       *)
(* except in the triangle test of triangle_height.py, whose outcome on      *)
(* collinear points is decided by rounding and which is computed in         *)
(* double precision.                                                        *)
(***************************************************************************)
EXTENDS Integers, Sequences, FiniteSets, TLC

-----------------------------------------------------------------------------
(* Exact arithmetic standing for Python float arithmetic                   *)

IAbs(i) == IF i < 0 THEN -i ELSE i
ISign(i) == IF i < 0 THEN -1 ELSE IF i > 0 THEN 1 ELSE 0

RECURSIVE GCD(_, _)
GCD(a, b) == IF b = 0 THEN a ELSE GCD(b, a % b)

RECURSIVE Pow10(_)
Pow10(k) == IF k = 0 THEN 1 ELSE 10 * Pow10(k - 1)

RECURSIVE Canon(_, _, _, _)
Canon(n, d, e, r) ==
    IF n = 0 THEN <<0, 1, 0, 1>>
    ELSE IF d % 2 = 0 THEN Canon(n * 5, d \div 2, e - 1, r)
    ELSE IF d % 5 = 0 THEN Canon(n * 2, d \div 5, e - 1, r)
    ELSE IF n % 10 = 0 THEN Canon(n \div 10, d, e + 1, r)
    ELSE <<n, d, e, r>>

\* (n/d) * 10^e * sqrt(r) for d # 0 and square-free r, in canonical form
Mk(n, d, e, r) ==
    LET g == GCD(IAbs(n), IAbs(d))
        s == IF d < 0 THEN -1 ELSE 1
    IN  Canon((s * n) \div g, (s * d) \div g, e, r)

Int2Num(i) == Mk(i, 1, 0, 1)
Zero == <<0, 1, 0, 1>>
One == <<1, 1, 0, 1>>
MinusOne == <<-1, 1, 0, 1>>
PInf == <<1, 0, 0, 1>>
NInf == <<-1, 0, 0, 1>>
NaN == <<0, 0, 0, 1>>
\* the result of adding two values with different irrational parts
Unrep == <<0, 0, 1, 1>>

IsFinite(x) == x[2] # 0
IsNaN(x) == x[2] = 0 /\ x[1] = 0
IsInf(x) == x[2] = 0 /\ x[1] # 0
IsZero(x) == x[2] # 0 /\ x[1] = 0
Sgn(x) == ISign(x[1])

Neg(x) == <<-x[1], x[2], x[3], x[4]>>
NAbs(x) == <<IAbs(x[1]), x[2], x[3], x[4]>>

Mul(x, y) ==
    IF IsFinite(x) /\ IsFinite(y)
    THEN LET g == GCD(x[4], y[4])
         IN  Mk(x[1] * y[1] * g, x[2] * y[2], x[3] + y[3],
                (x[4] \div g) * (y[4] \div g))
    ELSE <<Sgn(x) * Sgn(y), 0, 0, 1>>

\* 1/y for y # 0
Inv(y) ==
    IF IsFinite(y) THEN Mk(y[2], y[1] * y[4], -y[3], y[4])
    ELSE IF IsNaN(y) THEN NaN ELSE Zero

\* x/y for y # 0 (Python raises ZeroDivisionError when y = 0)
Div(x, y) == Mul(x, Inv(y))

\* sign of L * 10^k - R for L, R > 0 and k >= 0, without forming 10^k
RECURSIVE Scaled(_, _, _)
Scaled(L, R, k) ==
    IF k = 0 THEN ISign(L - R)
    ELSE IF L > R THEN 1
    ELSE Scaled(L * 10, R, k - 1)

\* sign of x - y for finite x, y > 0 with the same irrational part
PosCmp(x, y) ==
    LET k == x[3] - y[3]
        L == x[1] * y[2]
        R == y[1] * x[2]
    IN  IF k >= 0 THEN Scaled(L, R, k) ELSE -Scaled(R, L, -k)

\* |y| * 10^17 < |x| for finite non-zero x, y: in double precision x + y
\* is then x
Absorbs(x, y) ==
    LET a == IF x[4] = y[4] THEN NAbs(x) ELSE Mul(x, x)
        b == IF x[4] = y[4] THEN NAbs(y) ELSE Mul(y, y)
        k == IF x[4] = y[4] THEN 17 ELSE 34
    IN  PosCmp(<<b[1], b[2], b[3] + k, b[4]>>, a) < 0

Add(x, y) ==
    IF IsFinite(x) /\ IsFinite(y)
    THEN IF IsZero(x) THEN y
         ELSE IF IsZero(y) THEN x
         ELSE IF Absorbs(x, y) THEN x
         ELSE IF Absorbs(y, x) THEN y
         ELSE IF x[4] # y[4] THEN Unrep
         ELSE LET m == IF x[3] < y[3] THEN x[3] ELSE y[3]
                  a == x[1] * Pow10(x[3] - m)
                  b == y[1] * Pow10(y[3] - m)
              IN  Mk(a * y[2] + b * x[2], x[2] * y[2], m, x[4])
    ELSE IF IsNaN(x) \/ IsNaN(y) THEN NaN
    ELSE IF IsInf(x) /\ IsInf(y) /\ x # y THEN NaN
    ELSE IF IsInf(x) THEN x ELSE y

Sub(x, y) == Add(x, Neg(y))

\* x*x, always free of the irrational part
Sq(x) == Mul(x, x)

\* sign of x - y for finite x, y
Cmp(x, y) ==
    IF Sgn(x) # Sgn(y) THEN ISign(Sgn(x) - Sgn(y))
    ELSE IF Sgn(x) = 0 THEN 0
    ELSE LET a == IF Sgn(x) > 0 THEN x ELSE Neg(y)
             b == IF Sgn(x) > 0 THEN y ELSE Neg(x)
         IN  IF a[4] = b[4] THEN PosCmp(a, b) ELSE PosCmp(Sq(a), Sq(b))

\* x < y as Python compares floats (false when either is nan)
Lt(x, y) ==
    IF IsNaN(x) \/ IsNaN(y) THEN FALSE
    ELSE IF IsInf(x) \/ IsInf(y)
         THEN x # y /\ (x = NInf \/ y = PInf)
    ELSE Cmp(x, y) < 0

Gt(x, y) == Lt(y, x)
Ge(x, y) == ~IsNaN(x) /\ ~IsNaN(y) /\ ~Lt(x, y)

\* largest s in lo..hi with s*s dividing m, or 1 (m >= 1, hi * hi in range)
RECURSIVE SqPart(_, _, _)
SqPart(m, lo, hi) ==
    IF lo * lo > m THEN 1
    ELSE IF lo = hi THEN (IF m % (lo * lo) = 0 THEN lo ELSE 1)
    ELSE LET mid == (lo + hi) \div 2
             upper == SqPart(m, mid + 1, hi)
         IN  IF upper > 1 THEN upper ELSE SqPart(m, lo, mid)

\* math.sqrt of a rational x >= 0
Sqrt(x) ==
    IF ~IsFinite(x) THEN x
    ELSE IF IsZero(x) THEN Zero
    ELSE LET odd == x[3] % 2 = 1
             n == IF odd THEN x[1] * 10 ELSE x[1]
             e == IF odd THEN x[3] - 1 ELSE x[3]
             m == n * x[2]
             s == SqPart(m, 1, IF m < 46340 THEN m ELSE 46340)
         IN  Mk(s, x[2], e \div 2, m \div (s * s))

-----------------------------------------------------------------------------
(* Double precision.  Where the outcome of a comparison depends on how     *)
(* math.sqrt and + round, the values are IEEE doubles: a double is         *)
(* [m |-> M, e |-> E] for M * 2^E, M a natural number of at most 54 bits   *)
(* held as a little-endian sequence of 15-bit limbs (<<>> is 0).           *)

Limb == 32768

RECURSIVE BNorm(_)
BNorm(a) ==
    IF a = <<>> THEN <<>>
    ELSE IF a[Len(a)] = 0 THEN BNorm(SubSeq(a, 1, Len(a) - 1))
    ELSE a

RECURSIVE BFromInt(_)
BFromInt(n) == IF n = 0 THEN <<>> ELSE <<n % Limb>> \o BFromInt(n \div Limb)

RECURSIVE BAddC(_, _, _)
BAddC(a, b, c) ==
    IF a = <<>> /\ b = <<>> THEN BFromInt(c)
    ELSE LET x == IF a = <<>> THEN 0 ELSE a[1]
             y == IF b = <<>> THEN 0 ELSE b[1]
             t == x + y + c
         IN  <<t % Limb>> \o BAddC(IF a = <<>> THEN a ELSE Tail(a),
                                   IF b = <<>> THEN b ELSE Tail(b), t \div Limb)

BAdd(a, b) == BAddC(a, b, 0)

\* a - b - c for a >= b + c, with high zero limbs
RECURSIVE BSubB(_, _, _)
BSubB(a, b, c) ==
    IF a = <<>> THEN <<>>
    ELSE LET y == IF b = <<>> THEN 0 ELSE b[1]
             t == a[1] - y - c
         IN  <<t % Limb>> \o BSubB(Tail(a), IF b = <<>> THEN b ELSE Tail(b),
                                   IF t < 0 THEN 1 ELSE 0)

BSub(a, b) == BNorm(BSubB(a, b, 0))

\* sign of a - b
RECURSIVE BCmp(_, _)
BCmp(a, b) ==
    IF Len(a) # Len(b) THEN ISign(Len(a) - Len(b))
    ELSE IF a = <<>> THEN 0
    ELSE IF a[Len(a)] # b[Len(b)] THEN ISign(a[Len(a)] - b[Len(b)])
    ELSE BCmp(SubSeq(a, 1, Len(a) - 1), SubSeq(b, 1, Len(b) - 1))

\* a * k + c for 0 <= k, c < Limb
RECURSIVE BMulSmall(_, _, _)
BMulSmall(a, k, c) ==
    IF a = <<>> THEN BFromInt(c)
    ELSE LET t == a[1] * k + c
         IN  <<t % Limb>> \o BMulSmall(Tail(a), k, t \div Limb)

RECURSIVE BMul(_, _)
BMul(a, b) ==
    IF a = <<>> \/ b = <<>> THEN <<>>
    ELSE LET rest == BMul(a, Tail(b))
         IN  BAdd(BNorm(BMulSmall(a, b[1], 0)),
                  IF rest = <<>> THEN <<>> ELSE <<0>> \o rest)

RECURSIVE Pow2(_)
Pow2(k) == IF k = 0 THEN 1 ELSE 2 * Pow2(k - 1)

\* 2^k
BPow2(k) == [i \in 1..(k \div 15) |-> 0] \o <<Pow2(k % 15)>>

\* a * 2^k
BShl(a, k) == BMul(a, BPow2(k))

\* floor(a / d) for 0 < d < Limb, from the top limb down; r is the carry
RECURSIVE BDivSmall(_, _, _)
BDivSmall(a, d, r) ==
    IF a = <<>> THEN <<>>
    ELSE LET t == r * Limb + a[Len(a)]
         IN  BDivSmall(SubSeq(a, 1, Len(a) - 1), d, t % d) \o <<t \div d>>

\* floor(a / 2^k)
BShr(a, k) ==
    IF k \div 15 >= Len(a) THEN <<>>
    ELSE BNorm(BDivSmall(SubSeq(a, (k \div 15) + 1, Len(a)), Pow2(k % 15), 0))

RECURSIVE BitLen(_)
BitLen(n) == IF n = 0 THEN 0 ELSE 1 + BitLen(n \div 2)

BBitLen(a) == IF a = <<>> THEN 0 ELSE 15 * (Len(a) - 1) + BitLen(a[Len(a)])

\* floor(sqrt(N)) below 2^(bit+1), one bit at a time from bit down to 0
RECURSIVE BSqrtBits(_, _, _)
BSqrtBits(N, R, bit) ==
    IF bit < 0 THEN R
    ELSE LET T == BAdd(R, BPow2(bit))
             R2 == IF BCmp(BMul(T, T), N) <= 0 THEN T ELSE R
         IN  IF Len(R2) >= 0 THEN BSqrtBits(N, R2, bit - 1) ELSE R2

DZero == [m |-> <<>>, e |-> 0]

\* a rounded to 53 bits, to nearest and to even on a tie, times 2^e
DRound(a, e) ==
    LET sh == BBitLen(a) - 53
    IN  IF sh <= 0 THEN [m |-> a, e |-> e]
        ELSE LET q == BShr(a, sh)
                 rem == BSub(a, BShl(q, sh))
                 c == BCmp(rem, BPow2(sh - 1))
                 up == c > 0 \/ (c = 0 /\ q # <<>> /\ q[1] % 2 = 1)
             IN  [m |-> IF up THEN BAdd(q, <<1>>) ELSE q, e |-> e + sh]

\* math.sqrt(n) for a natural number n: floor(sqrt(n * 4^k)) has 54 bits,
\* the last of them the rounding bit
DSqrt(n) ==
    IF n = 0 THEN DZero
    ELSE LET k == (108 - BitLen(n)) \div 2
             N == BShl(BFromInt(n), 2 * k)
             R == BSqrtBits(N, <<>>, 53)
             exact == BCmp(BMul(R, R), N) = 0
         IN  IF exact THEN DRound(R, -k)
             ELSE DRound(BAdd(BShl(R, 1), <<1>>), -k - 1)

\* x + y
DAdd(x, y) ==
    LET e == IF x.e < y.e THEN x.e ELSE y.e
    IN  DRound(BAdd(BShl(x.m, x.e - e), BShl(y.m, y.e - e)), e)

\* x <= y
DLe(x, y) ==
    LET e == IF x.e < y.e THEN x.e ELSE y.e
    IN  BCmp(BShl(x.m, x.e - e), BShl(y.m, y.e - e)) <= 0

-----------------------------------------------------------------------------
(* vector_master.py: core vector operations                                *)

\* the tolerances written in the source
Eps10 == Mk(1, 1, -10, 1)
Eps6 == Mk(1, 1, -6, 1)

Min(a, b) == IF a < b THEN a ELSE b

RECURSIVE SumSq(_, _)
SumSq(v, i) == IF i > Len(v) THEN Zero ELSE Add(Sq(v[i]), SumSq(v, i + 1))

magnitude(v) == Sqrt(SumSq(v, 1))

\* sum(a*b for a, b in zip(u, v)): zip stops at the shorter operand
RECURSIVE DotFrom(_, _, _)
DotFrom(u, v, i) ==
    IF i > Min(Len(u), Len(v)) THEN Zero
    ELSE Add(Mul(u[i], v[i]), DotFrom(u, v, i + 1))

dot(u, v) == DotFrom(u, v, 1)

MsgCrossDefined == "Cross product only defined for 3D vectors"

cross_raises(u, v) == Len(u) # 3 \/ Len(v) # 3

\* cross with the third component's terms added instead of subtracted
cross_unsigned_z(u, v) ==
    << Sub(Mul(u[2], v[3]), Mul(u[3], v[2])),
       Sub(Mul(u[3], v[1]), Mul(u[1], v[3])),
       Add(Mul(u[1], v[2]), Mul(u[2], v[1])) >>

\* cross with the sign of the second component's second term flipped
cross_sign_slip(u, v) ==
    << Sub(Mul(u[2], v[3]), Mul(u[3], v[2])),
       Add(Mul(u[3], v[1]), Mul(u[1], v[3])),
       Sub(Mul(u[1], v[2]), Mul(u[2], v[1])) >>

cross(u, v) ==
    << Sub(Mul(u[2], v[3]), Mul(u[3], v[2])),
       Sub(Mul(u[3], v[1]), Mul(u[1], v[3])),
       Sub(Mul(u[1], v[2]), Mul(u[2], v[1])) >>

scalar_triple_raises(u, v, w) == cross_raises(v, w)

scalar_triple(u, v, w) == dot(u, cross(v, w))

\* the answers linear_dependence can return
LD_True == "True"
LD_False == "False"
LD_Cannot == "Cannot determine for this configuration"

\* the for loop of the two-vector branch; ratio is <<>> for None, else <<r>>
RECURSIVE LDLoop(_, _, _, _)
LDLoop(v0, v1, i, ratio) ==
    IF i > Len(v0) THEN LD_True
    ELSE IF Lt(NAbs(v1[i]), Eps10)
         THEN IF Gt(NAbs(v0[i]), Eps10) THEN LD_False
              ELSE LDLoop(v0, v1, i + 1, ratio)
         ELSE LET r == Div(v0[i], v1[i])
              IN  IF ratio = <<>> THEN LDLoop(v0, v1, i + 1, <<r>>)
                  ELSE IF Gt(NAbs(Sub(r, ratio[1])), Eps6) THEN LD_False
                  ELSE LDLoop(v0, v1, i + 1, ratio)

linear_dependence(vectors) ==
    IF Len(vectors) = 2
    THEN IF Lt(magnitude(vectors[1]), Eps10) \/ Lt(magnitude(vectors[2]), Eps10)
         THEN LD_True
         ELSE LDLoop(vectors[1], vectors[2], 2,
                     IF Gt(NAbs(vectors[2][1]), Eps10)
                     THEN <<Div(vectors[1][1], vectors[2][1])>> ELSE <<>>)
    ELSE IF Len(vectors) = 3 /\ Len(vectors[1]) = 3
    THEN IF Lt(NAbs(scalar_triple(vectors[1], vectors[2], vectors[3])), Eps6)
         THEN LD_True ELSE LD_False
    ELSE LD_Cannot

\* what a call does: <<>> when it returns, else <<exception type, message>>
MsgIndex == "list index out of range"
MsgUnitZero == "Cannot normalize zero vector"
MsgAngleZero == "Cannot compute angle with zero vector"
MsgProjZero == "Cannot project onto zero vector"

cross_fails(u, v) ==
    IF cross_raises(u, v) THEN <<"ValueError", MsgCrossDefined>> ELSE <<>>

scalar_triple_fails(u, v, w) == cross_fails(v, w)

\* v[i] and w[i] are read for i in range(3)
vector_triple_fails(u, v, w) ==
    IF Len(v) < 3 \/ Len(w) < 3 THEN <<"IndexError", MsgIndex>> ELSE <<>>

\* vector_triple with the two dot products exchanged
vector_triple_swapped(u, v, w) ==
    LET uw == dot(u, w)
        uv == dot(u, v)
    IN  [i \in 1..3 |-> Sub(Mul(uv, v[i]), Mul(uw, w[i]))]

vector_triple(u, v, w) ==
    LET uw == dot(u, w)
        uv == dot(u, v)
    IN  [i \in 1..3 |-> Sub(Mul(uw, v[i]), Mul(uv, w[i]))]

\* unit rejecting every vector of magnitude up to 1
unit_fails_up_to_one(v) ==
    IF ~Gt(magnitude(v), One) THEN <<"ValueError", MsgUnitZero>> ELSE <<>>

unit_fails(v) ==
    IF Lt(magnitude(v), Eps10) THEN <<"ValueError", MsgUnitZero>> ELSE <<>>

unit(v) == [i \in 1..Len(v) |-> Div(v[i], magnitude(v))]

angle_fails(u, v) ==
    IF Lt(magnitude(u), Eps10) \/ Lt(magnitude(v), Eps10)
    THEN <<"ValueError", MsgAngleZero>> ELSE <<>>

\* math.degrees(math.acos(c)) for the clamped cosine c, kept as its cosine
angle(u, v) ==
    LET c == Div(dot(u, v), Mul(magnitude(u), magnitude(v)))
        low == IF Lt(c, One) THEN c ELSE One
    IN  [acos |-> IF Gt(low, MinusOne) THEN low ELSE MinusOne]

proj_fails(u, v) ==
    IF Lt(magnitude(v), Eps10) THEN <<"ValueError", MsgProjZero>> ELSE <<>>

proj(u, v) ==
    LET scalar == Div(dot(u, v), Sq(magnitude(v)))
    IN  [i \in 1..Len(v) |-> Mul(scalar, v[i])]

comp_fails(u, v) == unit_fails(v)

comp(u, v) == dot(u, unit(v))

\* p[i] is read for i in range(len(u)), and p is as long as v
rejection_fails(u, v) ==
    IF proj_fails(u, v) # <<>> THEN proj_fails(u, v)
    ELSE IF Len(u) > Len(v) THEN <<"IndexError", MsgIndex>> ELSE <<>>

\* rejection adding the projection instead of subtracting it
rejection_added(u, v) ==
    LET p == proj(u, v)
    IN  [i \in 1..Len(u) |-> Add(u[i], p[i])]

rejection(u, v) ==
    LET p == proj(u, v)
    IN  [i \in 1..Len(u) |-> Sub(u[i], p[i])]

\* v[i] is read for i in range(len(u))
distance_fails(u, v) ==
    IF Len(u) > Len(v) THEN <<"IndexError", MsgIndex>> ELSE <<>>

distance(u, v) == magnitude([i \in 1..Len(u) |-> Sub(u[i], v[i])])

area_parallelogram(u, v) == magnitude(cross(u, v))

area_triangle(u, v) == Mul(Mk(1, 2, 0, 1), magnitude(cross(u, v)))

volume_parallelepiped(u, v, w) == NAbs(scalar_triple(u, v, w))

-----------------------------------------------------------------------------
(* line_master.py: angles                                                  *)
(* Angles are in degrees.  An angle the model can name exactly is          *)
(* [nan |-> FALSE, deg |-> k, x |-> One, y |-> Zero], the integer k.  Any  *)
(* other value of atan2 is k + atan2(y, x) with (x, y) strictly inside a   *)
(* quadrant, and [nan |-> TRUE, ...] is the float nan.                     *)

Eps9 == Mk(1, 1, -9, 1)

Exact(k) == [nan |-> FALSE, deg |-> k, x |-> One, y |-> Zero]
NaNAngle == [nan |-> TRUE, deg |-> 0, x |-> One, y |-> Zero]
IsExact(a) == ~a.nan /\ a.x = One /\ a.y = Zero

\* cos of an integer number of degrees in 0..90 on the 30/45 degree grid
CosTable(d) ==
    CASE d = 0 -> One
      [] d = 30 -> Mk(1, 2, 0, 3)
      [] d = 45 -> Mk(1, 2, 0, 2)
      [] d = 60 -> Mk(1, 2, 0, 1)
      [] d = 90 -> Zero

\* math.cos(math.radians(d)) for an integer d on the grid
CosDeg(d) ==
    LET r == d % 360
    IN  IF r <= 90 THEN CosTable(r)
        ELSE IF r <= 180 THEN Neg(CosTable(180 - r))
        ELSE IF r <= 270 THEN Neg(CosTable(r - 180))
        ELSE CosTable(360 - r)

\* math.sin(math.radians(d))
SinDeg(d) == CosDeg(d - 90)

\* math.tan(math.radians(d)) for d with cos d # 0
TanDeg(d) == Div(SinDeg(d), CosDeg(d))

\* the angle in 0..90 of the direction (|x|, |y|), or -1 off the grid
BaseAngle(x, y) ==
    IF IsZero(y) THEN 0
    ELSE IF IsZero(x) THEN 90
    ELSE IF Sq(x) = Sq(y) THEN 45
    ELSE IF Sq(x) = Mul(Int2Num(3), Sq(y)) THEN 30
    ELSE IF Sq(y) = Mul(Int2Num(3), Sq(x)) THEN 60
    ELSE -1

\* the lower end of the open quadrant holding atan2(y, x), x # 0 and y # 0
QuadrantBase(x, y) ==
    IF Sgn(y) > 0 THEN (IF Sgn(x) > 0 THEN 0 ELSE 90)
    ELSE (IF Sgn(x) > 0 THEN -90 ELSE -180)

\* math.degrees(math.atan2(y, x)); an infinite operand acts as its sign
\* beside a finite one
Atan2Deg(y, x) ==
    IF IsNaN(x) \/ IsNaN(y) THEN NaNAngle
    ELSE LET inf == IsInf(x) \/ IsInf(y)
             xx == IF inf THEN (IF IsInf(x) THEN Int2Num(Sgn(x)) ELSE Zero) ELSE x
             yy == IF inf THEN (IF IsInf(y) THEN Int2Num(Sgn(y)) ELSE Zero) ELSE y
             b == BaseAngle(xx, yy)
         IN  IF b < 0 THEN [nan |-> FALSE, deg |-> 0, x |-> xx, y |-> yy]
             ELSE IF Sgn(yy) >= 0
                  THEN Exact(IF Sgn(xx) >= 0 THEN b ELSE 180 - b)
                  ELSE Exact(IF Sgn(xx) >= 0 THEN -b ELSE b - 180)

AddDeg(a, k) == [a EXCEPT !.deg = a.deg + k]

\* ((deg + 180) % 360) - 180
normalize_angle(a) ==
    IF a.nan THEN a
    ELSE IF IsExact(a)
    THEN Exact(((a.deg + 180) % 360) - 180)
    ELSE LET q == QuadrantBase(a.x, a.y)
         IN  [a EXCEPT !.deg = a.deg - 360 * ((a.deg + q + 180) \div 360)]

\* a is an angle of the half-open interval (-180, 180]
InHalfOpenTop(a) ==
    /\ ~a.nan
    /\ IF IsExact(a) THEN -180 < a.deg /\ a.deg <= 180
       ELSE LET q == QuadrantBase(a.x, a.y)
            IN  -180 <= a.deg + q /\ a.deg + q + 90 <= 180

-----------------------------------------------------------------------------
(* line_master.py: line_from_general                                       *)

MsgBothZero == "A and B cannot both be zero."
MsgDivZero == "float division by zero"

\* math.hypot
Hypot(x, y) ==
    IF IsInf(x) \/ IsInf(y) THEN PInf
    ELSE IF IsNaN(x) \/ IsNaN(y) THEN NaN
    ELSE Sqrt(Add(Sq(x), Sq(y)))

NoProps ==
    [A |-> Zero, B |-> Zero, C |-> Zero, slope |-> Zero,
     x_intercept |-> <<>>, y_intercept |-> <<>>,
     alpha_line_deg |-> NaNAngle, alpha_normal_deg |-> NaNAngle,
     distance_from_origin |-> Zero, normal_vector |-> <<Zero, Zero>>,
     p_signed |-> Zero]

\* line_from_general(A, B, C): the exception it raises ("" for none) and the
\* dictionary it returns; None is <<>> and a present value is <<value>>
line_from_general(A, B, C) ==
    IF IsZero(A) /\ IsZero(B)
    THEN [raises |-> MsgBothZero, props |-> NoProps]
    ELSE
    LET norm == Hypot(A, B)
        A_n == Div(A, norm)
        B_n == Div(B, norm)
        C_n == Div(C, norm)
        p_signed == Neg(C_n)
        p == NAbs(p_signed)
        alpha_normal == normalize_angle(Atan2Deg(B_n, A_n))
        alpha_line == normalize_angle(AddDeg(alpha_normal, 90))
        sloped == Gt(NAbs(B), Eps9)
        m == IF sloped THEN Div(Neg(A), B) ELSE PInf
        y_int == IF sloped THEN <<Div(Neg(C), B)>> ELSE <<>>
        x_int == IF Gt(NAbs(A), Eps9) THEN <<Div(Neg(C), A)>> ELSE <<>>
        plot_raises == Lt(NAbs(B), Eps9) /\ IsZero(A)
    IN  IF plot_raises
        THEN [raises |-> MsgDivZero, props |-> NoProps]
        ELSE [raises |-> "",
              props |-> [A |-> A, B |-> B, C |-> C, slope |-> m,
                         x_intercept |-> x_int, y_intercept |-> y_int,
                         alpha_line_deg |-> alpha_line,
                         alpha_normal_deg |-> alpha_normal,
                         distance_from_origin |-> p,
                         normal_vector |-> <<A_n, B_n>>,
                         p_signed |-> p_signed]]

-----------------------------------------------------------------------------
(* State                                                                   *)

VARIABLES
    fn_pc,      \* direct call of a library function: "ready" or "done"
    fn_args,    \* the vector list passed to the function
    fn_res      \* <<>> before the call, <<value>> after it

VARIABLES
    vm_pc,      \* vector_master main: "menu", "get", "op", "report", "done"
    vm_choice,  \* the operation selected in the menu (0 before the selection)
    vm_count,   \* how many vectors main asked get_vectors for
    vm_vectors, \* the vectors accepted by get_vectors so far
    vm_dim,     \* get_vectors' dim: <<>> for None, else <<dimension>>
    vm_ret,     \* <<>> or <<the value perform_operation returned>>
    vm_out      \* what was printed, in order

VARIABLES
    lm_pc,      \* line_master main: "menu", "case", "general", "ask", "done",
                \* or "crashed" after an exception nothing catches
    lm_choice,  \* index into CASES (-1 before the selection)
    lm_in,      \* the numbers typed at the prompts of the chosen case
    lm_raised,  \* <<>> or <<message of the ValueError the case raised>>
    lm_line,    \* <<>> or <<A, B, C>> returned by the case
    lm_props,   \* <<>> or <<props of the line>>
    lm_point,   \* <<>> or <<x0, y0>> chosen for the perpendicular
    lm_perp,    \* <<>> or <<props of the perpendicular>>
    lm_calls,   \* the triples passed to line_from_general, in order
    lm_out      \* what was printed or shown, in order

VARIABLES
    op_pc,      \* direct call of a vector operation: "ready" or "done"
    op_fn,      \* the name of the function called ("" before the call)
    op_args,    \* the vectors passed to it
    op_res      \* <<>> before the call, <<outcome>> after it

VARIABLES
    th_pc,      \* triangle_height main: "input", "sides", "height", "plot",
                \* "done"
    th_pts,     \* <<>> or <<A, B, C>>, the vertices read
    th_sides,   \* <<>> or <<AB, BC, CA>>, the side lengths as doubles
    th_calls,   \* the <<A, B, C>> passed to height_from_C_to_AB, in order
    th_res,     \* <<>> or <<outcome of height_from_C_to_AB>>
    th_out      \* what was printed or shown, in order

VARIABLES
    sm_prog,    \* the sampler running: "show_table" (a direct call),
                \* "explorer" (limit_explorer main) or "builder" (limit_builder main)
    sm_pc,      \* "input", "table", "after", "done", or "crashed" after an
                \* exception nothing catches
    sm_f,       \* <<>> or <<the function tabulated>>
    sm_a,       \* <<>> or <<the limit point>>
    sm_entry,   \* <<>> or <<the line typed for the limit point>>
    sm_steps,   \* the number of offsets of the table (0 before it is known)
    sm_k,       \* the passes of the table's loop made so far
    sm_xs,      \* the points f was evaluated at, in order
    sm_out      \* what was printed, in order

VARIABLES
    sl_pc,      \* straight_line_on_the_plane main: "menu", "plot", "done",
                \* or "crashed" after an exception nothing catches
    sl_choice,  \* the menu entry chosen (0 before the selection)
    sl_in,      \* the numbers typed at the prompts of the chosen entry
    sl_line,    \* <<>> or <<A, B, C>> returned by get_input_and_compute
    sl_calls,   \* the triples passed to plot_line_from_general, in order
    sl_out      \* what was printed or shown, in order

fn_vars == <<fn_pc, fn_args, fn_res>>
sm_vars == <<sm_prog, sm_pc, sm_f, sm_a, sm_entry, sm_steps, sm_k, sm_xs, sm_out>>
sl_vars == <<sl_pc, sl_choice, sl_in, sl_line, sl_calls, sl_out>>
op_vars == <<op_pc, op_fn, op_args, op_res>>
th_vars == <<th_pc, th_pts, th_sides, th_calls, th_res, th_out>>
lm_vars == <<lm_pc, lm_choice, lm_in, lm_raised, lm_line, lm_props, lm_point,
             lm_perp, lm_calls, lm_out>>
vm_vars == <<vm_pc, vm_choice, vm_count, vm_vectors, vm_dim, vm_ret, vm_out>>
vars == <<fn_vars, vm_vars, lm_vars, op_vars, th_vars, sm_vars, sl_vars>>

-----------------------------------------------------------------------------
(* Direct calls of the vector library on bounded inputs                    *)

MaxCoord == 1
MaxTriple == 1

V(s) == [i \in 1..Len(s) |-> Int2Num(s[i])]

Coord == {Int2Num(i) : i \in -MaxCoord..MaxCoord}
TripleCoord == {Int2Num(i) : i \in 0..MaxTriple}
Vec2 == {<<a, b>> : a \in Coord, b \in Coord}
Vec3 == {<<a, b, c>> : a \in Coord, b \in Coord, c \in Coord}
TVec3 == {<<a, b, c>> : a \in TripleCoord, b \in TripleCoord, c \in TripleCoord}

\* the vector lists named in the specification's examples
ExampleLists ==
    { <<V(<<1, 2>>), V(<<2, 4>>)>>,
      <<V(<<1, 0, 0>>), V(<<0, 1, 0>>), V(<<0, 0, 1>>)>>,
      <<V(<<1, 2, 3>>), V(<<2, 4, 6>>), V(<<0, 0, 1>>)>>,
      <<V(<<1, -2, 3>>), V(<<-1, 1, 0>>), V(<<0, -1, 3>>)>>,
      <<V(<<2, -1, 0>>), V(<<0, 1, -1>>), V(<<1, 0, 2>>)>> }

ArgLists ==
    {<<u, v>> : u \in Vec2, v \in Vec2}
    \cup {<<u, v>> : u \in Vec3, v \in Vec3}
    \cup {<<u, v, w>> : u \in TVec3, v \in TVec3, w \in TVec3}
    \cup {<<u, v, w>> : u \in Vec2, v \in Vec2, w \in Vec2}
    \cup {<<u>> : u \in Vec2 \cup Vec3}
    \cup ExampleLists

FnIdle ==
    /\ fn_pc = "idle"
    /\ fn_args = <<>>
    /\ fn_res = <<>>

VmStart ==
    /\ vm_pc = "menu"
    /\ vm_choice = 0
    /\ vm_count = 0
    /\ vm_vectors = <<>>
    /\ vm_dim = <<>>
    /\ vm_ret = <<>>
    /\ vm_out = <<>>

LmStart ==
    /\ lm_pc = "menu"
    /\ lm_choice = -1
    /\ lm_in = <<>>
    /\ lm_raised = <<>>
    /\ lm_line = <<>>
    /\ lm_props = <<>>
    /\ lm_point = <<>>
    /\ lm_perp = <<>>
    /\ lm_calls = <<>>
    /\ lm_out = <<>>

OpIdle ==
    /\ op_pc = "idle"
    /\ op_fn = ""
    /\ op_args = <<>>
    /\ op_res = <<>>

ThStart ==
    /\ th_pc = "input"
    /\ th_pts = <<>>
    /\ th_sides = <<>>
    /\ th_calls = <<>>
    /\ th_res = <<>>
    /\ th_out = <<>>

SmStart ==
    /\ sm_prog = ""
    /\ sm_pc = "input"
    /\ sm_f = <<>>
    /\ sm_a = <<>>
    /\ sm_entry = <<>>
    /\ sm_steps = 0
    /\ sm_k = 0
    /\ sm_xs = <<>>
    /\ sm_out = <<>>

SlStart ==
    /\ sl_pc = "menu"
    /\ sl_choice = 0
    /\ sl_in = <<>>
    /\ sl_line = <<>>
    /\ sl_calls = <<>>
    /\ sl_out = <<>>

FnInit ==
    /\ fn_pc = "ready"
    /\ fn_args \in ArgLists
    /\ fn_res = <<>>
    /\ VmStart
    /\ LmStart
    /\ OpIdle
    /\ ThStart
    /\ SmStart
    /\ SlStart

call_linear_dependence ==
    /\ fn_pc = "ready"
    /\ fn_res' = <<linear_dependence(fn_args)>>
    /\ fn_pc' = "done"
    /\ UNCHANGED <<fn_args, vm_vars, lm_vars, op_vars, th_vars, sm_vars, sl_vars>>

FnNext == call_linear_dependence

SpecFn == FnInit /\ [][FnNext]_vars

-----------------------------------------------------------------------------
(* Claims about linear_dependence                                          *)

\* u and v have proportional components: every 2x2 minor vanishes, which
\* for vectors of equal dimension says one is a scalar multiple of the other
IsMultiple(u, v) ==
    \A i \in 1..Len(u), j \in 1..Len(u) :
        Sub(Mul(u[i], v[j]), Mul(u[j], v[i])) = Zero

CalledOnPair ==
    /\ fn_pc = "done"
    /\ Len(fn_args) = 2
    /\ Len(fn_args[1]) = Len(fn_args[2])

\* C1: called with two vectors of equal dimension, linear_dependence
\* returns True exactly when one is a scalar multiple of the other and
\* False for every other pair.
C1_PairDependenceIsProportionality ==
    CalledOnPair =>
        /\ fn_res[1] \in {LD_True, LD_False}
        /\ (fn_res[1] = LD_True) <=> IsMultiple(fn_args[1], fn_args[2])

\* determinant of the matrix with rows u, v, w by the rule of Sarrus
Det3(u, v, w) ==
    Sub(Add(Add(Mul(Mul(u[1], v[2]), w[3]), Mul(Mul(u[2], v[3]), w[1])),
            Mul(Mul(u[3], v[1]), w[2])),
        Add(Add(Mul(Mul(u[3], v[2]), w[1]), Mul(Mul(u[2], v[1]), w[3])),
            Mul(Mul(u[1], v[3]), w[2])))

Permutations3 ==
    {<<1, 2, 3>>, <<1, 3, 2>>, <<2, 1, 3>>, <<2, 3, 1>>, <<3, 1, 2>>, <<3, 2, 1>>}

CalledOnTriple3D ==
    /\ fn_pc = "done"
    /\ Len(fn_args) = 3
    /\ \A i \in 1..3 : Len(fn_args[i]) = 3

\* C3: called with three 3D vectors, linear_dependence returns True exactly
\* when the scalar triple product is below 1e-6 in magnitude and False
\* otherwise; the unit vectors are independent, (1,2,3),(2,4,6),(0,0,1) are
\* dependent, and the answer is the same for every order of the vectors.
C3_TripleDependenceIsZeroTripleProduct ==
    CalledOnTriple3D =>
        /\ fn_res[1] \in {LD_True, LD_False}
        /\ (fn_res[1] = LD_True) <=>
               Lt(NAbs(Det3(fn_args[1], fn_args[2], fn_args[3])), Eps6)
        /\ \A p \in Permutations3 :
               linear_dependence(<<fn_args[p[1]], fn_args[p[2]], fn_args[p[3]]>>)
                   = fn_res[1]
        /\ fn_args = <<V(<<1, 0, 0>>), V(<<0, 1, 0>>), V(<<0, 0, 1>>)>>
               => fn_res[1] = LD_False
        /\ fn_args = <<V(<<1, 2, 3>>), V(<<2, 4, 6>>), V(<<0, 0, 1>>)>>
               => fn_res[1] = LD_True

C3_Witness ==
    /\ CalledOnTriple3D
    /\ fn_args = <<V(<<1, 2, 3>>), V(<<2, 4, 6>>), V(<<0, 0, 1>>)>>
    /\ fn_res = <<LD_True>>

-----------------------------------------------------------------------------
(* vector_master.py: main, get_vectors, perform_operation                  *)

\* the operations of the menu that take three vectors
ThreeVectorOps == {6, 7, 16, 17, 19}
\* the operations of the menu whose branch of perform_operation is modelled
ModelledOps == {5, 6, 16, 17}
NumOperations == 19

\* the rejected entries get_vectors may see in one run
MaxRetries == 1

\* one line typed at a "A = " prompt: nothing, "()", a comma-separated list
\* of numbers, or text float() cannot convert
Typed(form, vals) == [form |-> form, vals |-> vals]

Entries ==
    { Typed("empty", <<>>), Typed("parens", <<>>), Typed("garbage", <<>>),
      Typed("list", V(<<1>>)), Typed("list", V(<<1, 2, 3, 4>>)),
      Typed("list", V(<<1, 0>>)), Typed("list", V(<<0, 1>>)),
      Typed("list", V(<<1, 1>>)),
      Typed("list", V(<<1, 0, 0>>)), Typed("list", V(<<0, 1, 0>>)),
      Typed("list", V(<<1, 1, 0>>)) }

MsgNotFloat == "could not convert string to float"
MsgBadLength == "Vector must be 2D (x,y) or 3D (x,y,z)"

parse_vector(entry) ==
    IF entry.form \in {"empty", "parens"}
    THEN [raises |-> FALSE, msg |-> "", v |-> <<>>]
    ELSE IF entry.form = "garbage"
    THEN [raises |-> TRUE, msg |-> MsgNotFloat, v |-> <<>>]
    ELSE IF Len(entry.vals) \notin {2, 3}
    THEN [raises |-> TRUE, msg |-> MsgBadLength, v |-> <<>>]
    ELSE [raises |-> FALSE, msg |-> "", v |-> entry.vals]

\* the demo vector get_vectors substitutes for an empty entry
DefaultEntry(i, dim) ==
    IF i = 0
    THEN IF dim = <<3>> THEN Typed("list", V(<<1, 2, 3>>))
         ELSE Typed("list", V(<<2, 1>>))
    ELSE IF dim = <<3>> THEN Typed("list", V(<<4, -1, 2>>))
         ELSE Typed("list", V(<<1, 3>>))

\* a printed line: its kind, its text and the numbers it shows
Line(kind, txt, nums) == [kind |-> kind, s |-> txt, v |-> nums]

Rejections(out) ==
    Cardinality({i \in 1..Len(out) : out[i].kind \in {"TryAgain", "MustBeDim"}})

\* main: the menu selection; typed is "int" for an integer, else anything
main_select ==
    /\ vm_pc = "menu"
    /\ \E typed \in {"int", "text"}, choice \in ModelledOps \cup {0, NumOperations + 1} :
         IF typed = "text" \/ ~(1 <= choice /\ choice <= NumOperations)
         THEN /\ vm_out' = Append(vm_out, Line("InputError", "", <<>>))
              /\ vm_pc' = "done"
              /\ UNCHANGED <<vm_choice, vm_count>>
         ELSE /\ vm_choice' = choice
              /\ vm_count' = IF choice \in ThreeVectorOps THEN 3 ELSE 2
              /\ vm_pc' = "get"
              /\ UNCHANGED vm_out
    /\ UNCHANGED <<vm_vectors, vm_dim, vm_ret, fn_vars, lm_vars, op_vars, th_vars, sm_vars, sl_vars>>

\* get_vectors: one pass of the while loop of vector number Len(vm_vectors)
get_vectors ==
    /\ vm_pc = "get"
    /\ \E typed \in Entries :
         LET i == Len(vm_vectors)
             inp == IF typed.form = "empty" THEN DefaultEntry(i, vm_dim) ELSE typed
             parsed == parse_vector(inp)
         IN  IF parsed.raises
             THEN /\ Rejections(vm_out) < MaxRetries
                  /\ vm_out' = Append(vm_out, Line("TryAgain", parsed.msg, <<>>))
                  /\ UNCHANGED <<vm_vectors, vm_dim, vm_pc>>
             ELSE IF vm_dim # <<>> /\ Len(parsed.v) # vm_dim[1]
             THEN /\ Rejections(vm_out) < MaxRetries
                  /\ vm_out' = Append(vm_out, Line("MustBeDim", "", <<Int2Num(vm_dim[1])>>))
                  /\ UNCHANGED <<vm_vectors, vm_dim, vm_pc>>
             ELSE /\ vm_vectors' = Append(vm_vectors, parsed.v)
                  /\ vm_dim' = <<Len(parsed.v)>>
                  /\ vm_pc' = IF i + 1 = vm_count THEN "op" ELSE "get"
                  /\ UNCHANGED vm_out
    /\ UNCHANGED <<vm_choice, vm_count, vm_ret, fn_vars, lm_vars, op_vars, th_vars, sm_vars, sl_vars>>

MsgCross3D == "Cross product only works in 3D"

\* bool(dep) for a value linear_dependence returns: False is falsy, True and
\* a non-empty string are truthy
Truthy(dep) == dep # LD_False

\* the try block of perform_operation up to "Display results": what it
\* raises, or the Result and explanation lines it prints
Outcome(choice, vectors) ==
    LET A == vectors[1]
        B == vectors[2]
        C == vectors[3]
        dim == Len(A)
        raise(m) == [raises |-> TRUE, msg |-> m, lines |-> <<>>]
        show(ls) == [raises |-> FALSE, msg |-> "", lines |-> ls]
    IN  CASE choice = 5 ->
               IF dim # 3 THEN raise(MsgCross3D)
               ELSE IF cross_raises(A, B) THEN raise(MsgCrossDefined)
               ELSE show(<< Line("Result", "", cross(A, B)),
                            Line("Explanation", "area", <<magnitude(cross(A, B))>>) >>)
          [] choice = 6 ->
               IF scalar_triple_raises(A, B, C) THEN raise(MsgCrossDefined)
               ELSE show(<< Line("Result", "", <<scalar_triple(A, B, C)>>),
                            Line("Explanation", "volume",
                                 <<NAbs(scalar_triple(A, B, C))>>) >>)
          [] choice = 16 ->
               IF scalar_triple_raises(A, B, C) THEN raise(MsgCrossDefined)
               ELSE show(<< Line("Result", "", <<NAbs(scalar_triple(A, B, C))>>),
                            Line("Explanation", "volume",
                                 <<NAbs(scalar_triple(A, B, C))>>) >>)
          [] choice = 17 ->
               LET dep == linear_dependence(<<A, B, C>>)
               IN  show(<< Line("Result", dep, <<>>),
                           Line("Answer", IF Truthy(dep) THEN "Yes" ELSE "No", <<>>) >>)

\* perform_operation, from its first line to its return
perform_operation ==
    /\ vm_pc = "op"
    /\ \E plot \in BOOLEAN :
         LET o == Outcome(vm_choice, vm_vectors)
         IN  IF o.raises
             THEN /\ vm_out' = Append(vm_out, Line("Error", o.msg, <<>>))
                  /\ vm_ret' = <<FALSE>>
             ELSE /\ vm_out' = vm_out \o <<Line("ResultHeader", "", <<>>)>> \o o.lines
                                  \o (IF plot
                                      THEN <<Line(IF Len(vm_vectors[1]) = 2
                                                  THEN "Plot2D" ELSE "Plot3D", "", <<>>)>>
                                      ELSE <<>>)
                  /\ vm_ret' = <<TRUE>>
    /\ vm_pc' = "report"
    /\ UNCHANGED <<vm_choice, vm_count, vm_vectors, vm_dim, fn_vars, lm_vars, op_vars, th_vars, sm_vars, sl_vars>>

\* main, after perform_operation returned
main_report ==
    /\ vm_pc = "report"
    /\ vm_out' = Append(vm_out, Line("Success", "", <<>>))
    /\ vm_pc' = "done"
    /\ UNCHANGED <<vm_choice, vm_count, vm_vectors, vm_dim, vm_ret, fn_vars, lm_vars, op_vars, th_vars, sm_vars, sl_vars>>

VmInit == VmStart /\ FnIdle /\ LmStart /\ OpIdle /\ ThStart /\ SmStart /\ SlStart

VmNext == main_select \/ get_vectors \/ perform_operation \/ main_report

SpecVM == VmInit /\ [][VmNext]_vars

\* perform_operation has run the linear-dependence check on a list that is
\* neither two vectors nor three 3D vectors
UnsupportedCheckDone ==
    /\ vm_pc \in {"report", "done"}
    /\ vm_choice = 17
    /\ vm_ret # <<>>
    /\ ~(Len(vm_vectors) = 2)
    /\ ~(Len(vm_vectors) = 3 /\ \A i \in 1..3 : Len(vm_vectors[i]) = 3)

\* C2: for a list that is neither two vectors nor three 3D vectors the
\* check is reported as unsupported and no yes/no answer is printed.
C2_UnsupportedIsNeverAnswered ==
    UnsupportedCheckDone =>
        /\ \E i \in 1..Len(vm_out) :
               vm_out[i].kind = "Result" /\ vm_out[i].s = LD_Cannot
        /\ \A i \in 1..Len(vm_out) : vm_out[i].kind # "Answer"

-----------------------------------------------------------------------------
(* line_master.py: the nine input handlers                                 *)

MsgDistinct == "Points must be distinct."
MsgIntercepts == "Intercepts must be nonzero for this form."
MsgNegativeP == "p must be >= 0 in normal form."
MsgGenericInvalid == "Invalid choice or input."

\* what a handler does: raise ValueError(msg), or return (A, B, C, label)
Raise(msg) == [raises |-> <<msg>>, line |-> <<>>]
Return(A, B, C) == [raises |-> <<>>, line |-> <<A, B, C>>]

\* case_point_slope with C = y0 + m*x0
case_point_slope_sign_slip(x0, y0, m) == Return(m, MinusOne, Add(y0, Mul(m, x0)))

case_point_slope(x0, y0, m) == Return(m, MinusOne, Sub(y0, Mul(m, x0)))

\* case_two_points without the test for coincident points
case_two_points_unchecked(x1, y1, x2, y2) ==
    IF x1 = x2 THEN Return(One, Zero, Neg(x1))
    ELSE LET m == Div(Sub(y2, y1), Sub(x2, x1))
         IN  Return(m, MinusOne, Sub(y1, Mul(m, x1)))

case_two_points(x1, y1, x2, y2) ==
    IF x1 = x2 /\ y1 = y2 THEN Raise(MsgDistinct)
    ELSE IF x1 = x2 THEN Return(One, Zero, Neg(x1))
    ELSE LET m == Div(Sub(y2, y1), Sub(x2, x1))
         IN  Return(m, MinusOne, Sub(y1, Mul(m, x1)))

case_slope_intercept(m, b) == Return(m, MinusOne, b)

case_intercepts(a, b) ==
    IF IsZero(a) \/ IsZero(b) THEN Raise(MsgIntercepts)
    ELSE Return(b, a, Mul(Neg(a), b))

\* alpha is an integer number of degrees
case_angle_point(x0, y0, alpha) ==
    LET m == TanDeg(alpha)
    IN  Return(m, MinusOne, Sub(y0, Mul(m, x0)))

case_normal_form(p, alpha) ==
    IF Lt(p, Zero) THEN Raise(MsgNegativeP)
    ELSE Return(CosDeg(alpha), SinDeg(alpha), Neg(p))

\* case_general without the test for A = B = 0
case_general_unchecked(A, B, C) == Return(A, B, C)

case_general(A, B, C) ==
    IF IsZero(A) /\ IsZero(B) THEN Raise(MsgBothZero)
    ELSE Return(A, B, C)

case_vertical(a) == Return(One, Zero, Neg(a))

case_horizontal(b) == Return(Zero, One, Neg(b))

NumCases == 9

-----------------------------------------------------------------------------
(* line_master.py: print_properties and main                               *)

print_properties(props, title) ==
    << Line(title, "General form", <<props.A, props.B, props.C>>) >>
    \o (IF props.slope = PInf THEN <<Line(title, "Vertical line", <<>>)>>
        ELSE IF IsZero(props.slope) THEN <<Line(title, "Horizontal line", <<>>)>>
        ELSE << Line(title, "Slope", <<props.slope>>),
                Line(title, "Angle with +x", <<props.alpha_line_deg>>) >>)
    \o << Line(title, "Normal angle", <<props.alpha_normal_deg>>),
          Line(title, "Distance from O", <<props.distance_from_origin>>) >>
    \o (IF props.x_intercept # <<>>
        THEN <<Line(title, "x-intercept", props.x_intercept)>> ELSE <<>>)
    \o (IF props.y_intercept # <<>>
        THEN <<Line(title, "y-intercept", props.y_intercept)>> ELSE <<>>)
    \o << Line(title, "Unit normal vec", props.normal_vector) >>

\* the except clauses of main's first try block: the line printed for an
\* exception of the given type and message
main_except(type, msg) ==
    IF type \in {"ValueError", "IndexError"}
    THEN Line("Rejected", MsgGenericInvalid, <<>>)
    ELSE Line("Rejected", msg, <<>>)

\* bounds of the numbers typed at the prompts
MaxLm == 1
LmInts == {Int2Num(i) : i \in -MaxLm..MaxLm}
Tiny == Mk(1, 1, -10, 1)
\* the points of the specification's round-trip examples
ExamplePoints == {<<0, 0, 4, 0>>, <<1, 0, 1, 5>>}
\* angles whose tangent is rational
TanAngles == {-135, -45, 0, 45, 135, 180}
\* normal angles on the 30 and 45 degree grid
NormalAngles == {d \in -180..270 : d % 45 = 0 \/ d % 30 = 0}
Distances == {-1, 0, 1, 5}
Coefficients == LmInts \cup {Tiny, Neg(Tiny), NInf}

\* main: the menu selection
select_case ==
    /\ lm_pc = "menu"
    /\ \E typed \in {"int", "text"}, choice \in -1..NumCases :
         IF typed = "text" \/ ~(0 <= choice /\ choice < NumCases)
         THEN /\ lm_out' = Append(lm_out, main_except("ValueError", ""))
              /\ lm_pc' = "done"
              /\ UNCHANGED lm_choice
         ELSE /\ lm_choice' = choice
              /\ lm_pc' = "case"
              /\ UNCHANGED lm_out
    /\ UNCHANGED <<lm_in, lm_raised, lm_line, lm_props, lm_point, lm_perp,
                   lm_calls, fn_vars, vm_vars, op_vars, th_vars, sm_vars, sl_vars>>

\* main after the chosen handler was called with the numbers typed and did r
Handled(typed, r) ==
    /\ lm_in' = typed
    /\ lm_raised' = r.raises
    /\ lm_line' = r.line
    /\ IF r.raises # <<>>
       THEN /\ lm_out' = Append(lm_out, main_except("ValueError", r.raises[1]))
            /\ lm_pc' = "done"
       ELSE /\ lm_pc' = "general"
            /\ UNCHANGED lm_out
    /\ UNCHANGED <<lm_choice, lm_props, lm_point, lm_perp, lm_calls,
                   fn_vars, vm_vars, op_vars, th_vars, sm_vars, sl_vars>>

\* float(input(...)) raises ValueError in the chosen handler
read_bad_number ==
    /\ lm_pc = "case"
    /\ lm_out' = Append(lm_out, main_except("ValueError", MsgNotFloat))
    /\ lm_pc' = "done"
    /\ UNCHANGED <<lm_choice, lm_in, lm_raised, lm_line, lm_props, lm_point,
                   lm_perp, lm_calls, fn_vars, vm_vars, op_vars, th_vars, sm_vars, sl_vars>>

read_point_slope ==
    /\ lm_pc = "case"
    /\ lm_choice = 0
    /\ \E x0 \in LmInts, y0 \in LmInts, m \in LmInts :
         Handled(<<x0, y0, m>>, case_point_slope(x0, y0, m))

read_two_points ==
    /\ lm_pc = "case"
    /\ lm_choice = 1
    /\ \E q \in {<<x1, y1, x2, y2>> : x1 \in LmInts, y1 \in LmInts,
                                     x2 \in LmInts, y2 \in LmInts}
                \cup {V(e) : e \in ExamplePoints} :
         Handled(q, case_two_points(q[1], q[2], q[3], q[4]))

read_slope_intercept ==
    /\ lm_pc = "case"
    /\ lm_choice = 2
    /\ \E m \in LmInts, b \in LmInts :
         Handled(<<m, b>>, case_slope_intercept(m, b))

read_intercepts ==
    /\ lm_pc = "case"
    /\ lm_choice = 3
    /\ \E a \in LmInts \cup {Tiny}, b \in LmInts \cup {Tiny} :
         Handled(<<a, b>>, case_intercepts(a, b))

read_angle_point ==
    /\ lm_pc = "case"
    /\ lm_choice = 4
    /\ \E x0 \in LmInts, y0 \in LmInts, alpha \in TanAngles :
         Handled(<<x0, y0, Int2Num(alpha)>>, case_angle_point(x0, y0, alpha))

read_normal_form ==
    /\ lm_pc = "case"
    /\ lm_choice = 5
    /\ \E p \in Distances, alpha \in NormalAngles :
         Handled(IF p < 0 THEN <<Int2Num(p)>> ELSE <<Int2Num(p), Int2Num(alpha)>>,
                 case_normal_form(Int2Num(p), alpha))

read_general ==
    /\ lm_pc = "case"
    /\ lm_choice = 6
    /\ \E A \in Coefficients, B \in Coefficients, C \in LmInts :
         Handled(<<A, B, C>>, case_general(A, B, C))

read_vertical ==
    /\ lm_pc = "case"
    /\ lm_choice = 7
    /\ \E a \in LmInts : Handled(<<a>>, case_vertical(a))

read_horizontal ==
    /\ lm_pc = "case"
    /\ lm_choice = 8
    /\ \E b \in LmInts : Handled(<<b>>, case_horizontal(b))

\* main: "Compute & show properties"
show_properties ==
    /\ lm_pc = "general"
    /\ LET r == line_from_general(lm_line[1], lm_line[2], lm_line[3])
       IN  /\ lm_calls' = Append(lm_calls, lm_line)
           /\ IF r.raises # ""
              THEN /\ lm_out' = Append(lm_out, Line("Plotting error", r.raises, <<>>))
                   /\ lm_pc' = "done"
                   /\ UNCHANGED lm_props
              ELSE /\ lm_props' = <<r.props>>
                   /\ lm_out' = lm_out \o print_properties(r.props, "Line Properties")
                   /\ lm_pc' = "ask"
    /\ UNCHANGED <<lm_choice, lm_in, lm_raised, lm_line, lm_point, lm_perp,
                   fn_vars, vm_vars, op_vars, th_vars, sm_vars, sl_vars>>

\* the point of the original line main draws the perpendicular through
perpendicular_point(props) ==
    IF props.x_intercept # <<>> THEN <<props.x_intercept[1], Zero>>
    ELSE IF props.y_intercept # <<>> THEN <<Zero, props.y_intercept[1]>>
    ELSE << Mul(props.distance_from_origin, props.normal_vector[1]),
            Mul(props.distance_from_origin, props.normal_vector[2]) >>

\* (A_perp, B_perp, C_perp) for the line (A, B, C) and the point pt
perpendicular_line(A, B, pt) ==
    << B, Neg(A), Neg(Add(Mul(B, pt[1]), Mul(Neg(A), pt[2]))) >>

PlotShown == Line("Plot", "Straight Line Visualization", <<>>)

\* main from the perpendicular prompt to plt.show()
draw_perpendicular ==
    /\ lm_pc = "ask"
    /\ \E yes \in BOOLEAN :
         IF ~yes
         THEN /\ lm_out' = Append(lm_out, PlotShown)
              /\ lm_pc' = "done"
              /\ UNCHANGED <<lm_point, lm_perp, lm_calls>>
         ELSE LET pt == perpendicular_point(lm_props[1])
                  perp == perpendicular_line(lm_line[1], lm_line[2], pt)
                  r == line_from_general(perp[1], perp[2], perp[3])
              IN  /\ lm_point' = pt
                  /\ lm_calls' = Append(lm_calls, perp)
                  /\ IF r.raises # ""
                     THEN /\ lm_out' = Append(lm_out, Line("Traceback", r.raises, <<>>))
                          /\ lm_pc' = "crashed"
                          /\ UNCHANGED lm_perp
                     ELSE /\ lm_perp' = <<r.props>>
                          /\ lm_out' = lm_out \o print_properties(r.props, "Perpendicular Line")
                                           \o <<PlotShown>>
                          /\ lm_pc' = "done"
    /\ UNCHANGED <<lm_choice, lm_in, lm_raised, lm_line, lm_props, fn_vars, vm_vars, op_vars, th_vars, sm_vars, sl_vars>>

LmInit == LmStart /\ FnIdle /\ VmStart /\ OpIdle /\ ThStart /\ SmStart /\ SlStart

LmNext ==
    \/ select_case
    \/ read_bad_number
    \/ read_point_slope
    \/ read_two_points
    \/ read_slope_intercept
    \/ read_intercepts
    \/ read_angle_point
    \/ read_normal_form
    \/ read_general
    \/ read_vertical
    \/ read_horizontal
    \/ show_properties
    \/ draw_perpendicular

SpecLM == LmInit /\ [][LmNext]_vars

\* no value of the run is the result of an addition the model cannot carry out
LmRepresentable ==
    /\ \A i \in 1..Len(lm_calls) : \A j \in 1..3 : lm_calls[i][j] # Unrep
    /\ \A i \in 1..Len(lm_point) : lm_point[i] # Unrep

-----------------------------------------------------------------------------
(* Claims about line_master                                                *)

\* C4: every triple (A, B, C) main passes to line_from_general, from a
\* handler or as the perpendicular (B, -A, C'), has A # 0 or B # 0.
C4_EveryLinePassedIsALine ==
    \A i \in 1..Len(lm_calls) :
        ~(IsZero(lm_calls[i][1]) /\ IsZero(lm_calls[i][2]))

C4_Witness ==
    /\ lm_pc = "done"
    /\ lm_choice = 6
    /\ Len(lm_calls) = 2
    /\ lm_calls[2][1] = lm_calls[1][2]
    /\ IsZero(lm_calls[1][1])

\* the numbers typed are one of the degenerate inputs of the handler chosen
Degenerate ==
    /\ lm_in # <<>>
    /\ \/ lm_choice = 1 /\ lm_in[1] = lm_in[3] /\ lm_in[2] = lm_in[4]
       \/ lm_choice = 3 /\ (IsZero(lm_in[1]) \/ IsZero(lm_in[2]))
       \/ lm_choice = 5 /\ Lt(lm_in[1], Zero)
       \/ lm_choice = 6 /\ IsZero(lm_in[1]) /\ IsZero(lm_in[2])

\* C5: a degenerate input (coincident points, a zero intercept, p < 0,
\* A = B = 0) makes the construction fail, and main returns without
\* computing properties, offering the perpendicular or plotting.
C5_DegenerateInputAborts ==
    Degenerate =>
        /\ lm_raised # <<>>
        /\ lm_line = <<>>
        /\ lm_pc = "done"
        /\ lm_calls = <<>>
        /\ lm_props = <<>> /\ lm_perp = <<>> /\ lm_point = <<>>
        /\ Len(lm_out) = 1
        /\ lm_out[1].kind = "Rejected"

C5_Witness ==
    /\ Degenerate
    /\ lm_choice = 1
    /\ lm_raised = <<MsgDistinct>>
    /\ lm_pc = "done"

\* C6: when a construction is rejected for a domain reason the message
\* shown is the reason the handler raised, not the generic message.
C6_RejectionShowsTheReason ==
    lm_raised # <<>> =>
        /\ lm_out # <<>>
        /\ lm_out[Len(lm_out)].s = lm_raised[1]
        /\ lm_out[Len(lm_out)].s # MsgGenericInvalid

FiniteLine(props) == IsFinite(props.A) /\ IsFinite(props.B) /\ IsFinite(props.C)

\* the dictionaries line_from_general has returned to main for lines with
\* finite coefficients
Reported == {q \in {lm_props, lm_perp} : q # <<>> /\ FiniteLine(q[1])}

\* C7: the normal angle and the direction angle (normal angle + 90,
\* normalized again) reported by line_from_general lie in (-180, 180].
C7_AnglesInHalfOpenInterval ==
    \A q \in Reported :
        /\ InHalfOpenTop(q[1].alpha_normal_deg)
        /\ InHalfOpenTop(q[1].alpha_line_deg)
        /\ (q[1].alpha_line_deg.deg - q[1].alpha_normal_deg.deg - 90) % 360 = 0

\* the line was built from the normal form (p, alpha) with p >= 0 and
\* alpha in (-180, 180], and its properties were computed
NormalFormRead ==
    /\ lm_choice = 5
    /\ lm_props # <<>>
    /\ Ge(lm_in[1], Zero)
    /\ Lt(Int2Num(-180), lm_in[2]) /\ ~Lt(Int2Num(180), lm_in[2])

\* C8: the line built from the normal form (p, alpha), p >= 0 and alpha in
\* (-180, 180], reads back distance p, signed distance p and normal angle
\* alpha.
C8_NormalFormRoundTrip ==
    NormalFormRead =>
        /\ lm_props[1].distance_from_origin = lm_in[1]
        /\ lm_props[1].p_signed = lm_in[1]
        /\ ~lm_props[1].alpha_normal_deg.nan
        /\ IsExact(lm_props[1].alpha_normal_deg)
        /\ Int2Num(lm_props[1].alpha_normal_deg.deg) = lm_in[2]

\* every dictionary line_from_general has returned to main
Returned == {q \in {lm_props, lm_perp} : q # <<>>}

\* print_properties reports props as a vertical line
ReportedVertical(props) == props.slope = PInf

\* C9: the slope is the vertical sentinel exactly when |B| does not exceed
\* 1e-9 and -A/B otherwise; the x-intercept is undefined exactly when |A|
\* does not exceed 1e-9 and -C/A otherwise; likewise the y-intercept with B.
\* The line through (0,0),(4,0) has slope 0 and y-intercept 0; the line
\* through (1,0),(1,5) has the sentinel and x-intercept 1.
C9_SentinelAndIntercepts ==
    /\ \A q \in Returned :
         LET r == q[1]
             bigA == Gt(NAbs(r.A), Eps9)
             bigB == Gt(NAbs(r.B), Eps9)
         IN  /\ ReportedVertical(r) <=> ~bigB
             /\ bigB => r.slope = Div(Neg(r.A), r.B)
             /\ (r.x_intercept = <<>>) <=> ~bigA
             /\ bigA => r.x_intercept = <<Div(Neg(r.C), r.A)>>
             /\ (r.y_intercept = <<>>) <=> ~bigB
             /\ bigB => r.y_intercept = <<Div(Neg(r.C), r.B)>>
    /\ (lm_choice = 1 /\ lm_in = V(<<0, 0, 4, 0>>) /\ lm_props # <<>>) =>
           lm_props[1].slope = Zero /\ lm_props[1].y_intercept = <<Zero>>
    /\ (lm_choice = 1 /\ lm_in = V(<<1, 0, 1, 5>>) /\ lm_props # <<>>) =>
           ReportedVertical(lm_props[1]) /\ lm_props[1].x_intercept = <<One>>

\* main has passed the perpendicular of a line with finite coefficients to
\* line_from_general
PerpendicularDrawn ==
    /\ lm_point # <<>>
    /\ Len(lm_calls) = 2
    /\ FiniteLine(lm_props[1])

\* C10: the perpendicular drawn is (B, -A, -(B*x0 - A*y0)) where (x0, y0)
\* lies on the original line, so it is orthogonal to the original line and
\* meets it at (x0, y0).
C10_PerpendicularThroughPointOfLine ==
    PerpendicularDrawn =>
        LET A == lm_line[1]
            B == lm_line[2]
            C == lm_line[3]
            x0 == lm_point[1]
            y0 == lm_point[2]
            P == lm_calls[2]
        IN  /\ P[1] = B /\ P[2] = Neg(A)
            /\ P[3] = Neg(Add(Mul(P[1], x0), Mul(P[2], y0)))
            /\ Add(Add(Mul(A, x0), Mul(B, y0)), C) = Zero
            /\ Add(Add(Mul(P[1], x0), Mul(P[2], y0)), P[3]) = Zero
            /\ Add(Mul(A, P[1]), Mul(B, P[2])) = Zero

\* the point (x, y) satisfies A*x + B*y + C = 0 for the triple l
OnLine(l, x, y) == Add(Add(Mul(l[1], x), Mul(l[2], y)), l[3]) = Zero

\* C11: the triple a point-based handler returns is the one stated and
\* every defining point satisfies A*x + B*y + C = 0: (x0, y0) for
\* point-slope and angle+point, both points for two points (vertical
\* (1, 0, -x1) when x1 = x2), (a, 0) and (0, b) for intercepts (b, a, -ab).
C11_DefiningPointsOnLine ==
    lm_line # <<>> =>
        /\ lm_choice = 0 =>
             /\ lm_line = <<lm_in[3], MinusOne, Sub(lm_in[2], Mul(lm_in[3], lm_in[1]))>>
             /\ OnLine(lm_line, lm_in[1], lm_in[2])
        /\ lm_choice = 1 =>
             /\ OnLine(lm_line, lm_in[1], lm_in[2])
             /\ OnLine(lm_line, lm_in[3], lm_in[4])
             /\ lm_in[1] = lm_in[3] => lm_line = <<One, Zero, Neg(lm_in[1])>>
             /\ lm_in[1] # lm_in[3] => lm_line[2] = MinusOne
        /\ lm_choice = 3 =>
             /\ lm_line = <<lm_in[2], lm_in[1], Neg(Mul(lm_in[1], lm_in[2]))>>
             /\ OnLine(lm_line, lm_in[1], Zero)
             /\ OnLine(lm_line, Zero, lm_in[2])
        /\ lm_choice = 4 =>
             /\ lm_line[2] = MinusOne
             /\ OnLine(lm_line, lm_in[1], lm_in[2])

C11_Witness ==
    /\ lm_choice = 0
    /\ lm_line # <<>>
    /\ lm_in = V(<<1, -1, 1>>)
    /\ lm_line[3] = Int2Num(-2)

-----------------------------------------------------------------------------
(* triangle_height.py: the height from C to the line AB                    *)

MsgTooClose == "Points A and B are too close - cannot form a triangle base"

\* distance(p1, p2) of triangle_height.py
point_distance(p1, p2) ==
    Sqrt(Add(Sq(Sub(p2[1], p1[1])), Sq(Sub(p2[2], p1[2]))))

vector(p1, p2) == <<Sub(p2[1], p1[1]), Sub(p2[2], p1[2])>>

cross_product(v1, v2) == Sub(Mul(v1[1], v2[2]), Mul(v1[2], v2[1]))

dot_product(v1, v2) == Add(Mul(v1[1], v2[1]), Mul(v1[2], v2[2]))

point_on_line(A, B, t) ==
    <<Add(A[1], Mul(t, Sub(B[1], A[1]))), Add(A[2], Mul(t, Sub(B[2], A[2])))>>

height_from_C_to_AB_fails(A, B, C) ==
    IF Lt(point_distance(A, B), Eps10) THEN <<"ValueError", MsgTooClose>>
    ELSE <<>>

\* the foot of the perpendicular taken at t = AC . AB, not divided by |AB|^2
height_from_C_to_AB_unscaled(A, B, C) ==
    LET AB == vector(A, B)
        AC == vector(A, C)
        cross_mag == NAbs(cross_product(AB, AC))
        AB_length == point_distance(A, B)
        height == Div(cross_mag, AB_length)
        t == dot_product(AC, AB)
        H == point_on_line(A, B, t)
    IN  <<height, H>>

\* (height, H) for a base AB that is long enough
height_from_C_to_AB(A, B, C) ==
    LET AB == vector(A, B)
        AC == vector(A, C)
        cross_mag == NAbs(cross_product(AB, AC))
        AB_length == point_distance(A, B)
        height == Div(cross_mag, AB_length)
        AB_squared == Add(Sq(AB[1]), Sq(AB[2]))
        t == Div(dot_product(AC, AB), AB_squared)
        H == point_on_line(A, B, t)
    IN  <<height, H>>

-----------------------------------------------------------------------------
(* Direct calls of the vector operations of vector_master.py and of        *)
(* height_from_C_to_AB of triangle_height.py                               *)

\* the components of the vectors passed to the vector operations
MaxOp == 1
OpCoord == {Int2Num(i) : i \in -MaxOp..MaxOp}
OpVec2 == {<<a, b>> : a \in OpCoord, b \in OpCoord}
OpVec3 == {<<a, b, c>> : a \in OpCoord, b \in OpCoord, c \in OpCoord}
OpVec == OpVec2 \cup OpVec3

\* vectors around the 1e-10 threshold of the zero-vector tests
NearZero == { <<Mk(1, 1, -11, 1), Zero>>, <<Eps10, Zero>>,
              <<Mk(1, 1, -11, 1), Zero, Zero>> }

\* the triangle of the documentation, and bases around the 1e-10 threshold
NearPoints ==
    { <<V(<<0, 0>>), V(<<4, 0>>), V(<<1, 3>>)>> }
    \cup {<<V(<<0, 0>>), b, V(c)>> : b \in {<<Mk(1, 1, -11, 1), Zero>>, <<Eps10, Zero>>},
                                   c \in {<<0, 1>>, <<1, 1>>}}

OpArgLists ==
    {<<v>> : v \in OpVec \cup NearZero}
    \cup {<<u, v>> : u \in OpVec, v \in OpVec}
    \cup {<<u, v>> : u \in {V(<<0, 0>>), V(<<0, 1>>)}, v \in NearZero}
    \cup {<<u, v, w>> : u \in TVec3 \cup {V(<<1, 2>>)}, v \in TVec3 \cup {V(<<1, 2>>)},
                        w \in TVec3 \cup {V(<<1, 2>>)}}
    \cup {a \in ExampleLists : Len(a) = 3}
    \cup {<<A, B, C>> : A \in OpVec2, B \in OpVec2, C \in OpVec2}
    \cup NearPoints

\* the call returned val, or raised fails = <<type, message>>
Gives(fails, val) ==
    IF fails = <<>> THEN [exc |-> "", msg |-> "", val |-> val]
    ELSE [exc |-> fails[1], msg |-> fails[2], val |-> <<>>]

Called(name, outcome) ==
    /\ op_fn' = name
    /\ op_res' = <<outcome>>
    /\ op_pc' = "done"
    /\ UNCHANGED <<op_args, fn_vars, vm_vars, lm_vars, th_vars, sm_vars, sl_vars>>

OpInit ==
    /\ op_pc = "ready"
    /\ op_fn = ""
    /\ op_args \in OpArgLists
    /\ op_res = <<>>
    /\ FnIdle /\ VmStart /\ LmStart /\ ThStart /\ SmStart /\ SlStart

call_unit ==
    /\ op_pc = "ready"
    /\ Len(op_args) = 1
    /\ LET v == op_args[1]
       IN  Called("unit", Gives(unit_fails(v), unit(v)))

call_dot ==
    /\ op_pc = "ready"
    /\ Len(op_args) = 2
    /\ LET u == op_args[1]
           v == op_args[2]
       IN  Called("dot", Gives(<<>>, dot(u, v)))

call_cross ==
    /\ op_pc = "ready"
    /\ Len(op_args) = 2
    /\ LET u == op_args[1]
           v == op_args[2]
       IN  Called("cross", Gives(cross_fails(u, v), cross(u, v)))

call_proj ==
    /\ op_pc = "ready"
    /\ Len(op_args) = 2
    /\ LET u == op_args[1]
           v == op_args[2]
       IN  Called("proj", Gives(proj_fails(u, v), proj(u, v)))

call_comp ==
    /\ op_pc = "ready"
    /\ Len(op_args) = 2
    /\ LET u == op_args[1]
           v == op_args[2]
       IN  Called("comp", Gives(comp_fails(u, v), comp(u, v)))

call_rejection ==
    /\ op_pc = "ready"
    /\ Len(op_args) = 2
    /\ LET u == op_args[1]
           v == op_args[2]
       IN  Called("rejection", Gives(rejection_fails(u, v), rejection(u, v)))

call_distance ==
    /\ op_pc = "ready"
    /\ Len(op_args) = 2
    /\ LET u == op_args[1]
           v == op_args[2]
       IN  Called("distance", Gives(distance_fails(u, v), distance(u, v)))

call_angle ==
    /\ op_pc = "ready"
    /\ Len(op_args) = 2
    /\ LET u == op_args[1]
           v == op_args[2]
       IN  Called("angle", Gives(angle_fails(u, v), angle(u, v)))

call_area_parallelogram ==
    /\ op_pc = "ready"
    /\ Len(op_args) = 2
    /\ LET u == op_args[1]
           v == op_args[2]
       IN  Called("area_parallelogram", Gives(cross_fails(u, v), area_parallelogram(u, v)))

call_area_triangle ==
    /\ op_pc = "ready"
    /\ Len(op_args) = 2
    /\ LET u == op_args[1]
           v == op_args[2]
       IN  Called("area_triangle", Gives(cross_fails(u, v), area_triangle(u, v)))

call_scalar_triple ==
    /\ op_pc = "ready"
    /\ Len(op_args) = 3
    /\ LET u == op_args[1]
           v == op_args[2]
           w == op_args[3]
       IN  Called("scalar_triple", Gives(scalar_triple_fails(u, v, w), scalar_triple(u, v, w)))

call_vector_triple ==
    /\ op_pc = "ready"
    /\ Len(op_args) = 3
    /\ LET u == op_args[1]
           v == op_args[2]
           w == op_args[3]
       IN  Called("vector_triple", Gives(vector_triple_fails(u, v, w), vector_triple(u, v, w)))

call_volume_parallelepiped ==
    /\ op_pc = "ready"
    /\ Len(op_args) = 3
    /\ LET u == op_args[1]
           v == op_args[2]
           w == op_args[3]
       IN  Called("volume_parallelepiped", Gives(scalar_triple_fails(u, v, w), volume_parallelepiped(u, v, w)))

call_height_from_C_to_AB ==
    /\ op_pc = "ready"
    /\ Len(op_args) = 3
    /\ \A i \in 1..3 : Len(op_args[i]) = 2
    /\ LET A == op_args[1]
           B == op_args[2]
           C == op_args[3]
       IN  Called("height_from_C_to_AB",
                  Gives(height_from_C_to_AB_fails(A, B, C), height_from_C_to_AB(A, B, C)))

OpNext ==
    \/ call_unit
    \/ call_dot
    \/ call_cross
    \/ call_proj
    \/ call_comp
    \/ call_rejection
    \/ call_distance
    \/ call_angle
    \/ call_area_parallelogram
    \/ call_area_triangle
    \/ call_scalar_triple
    \/ call_vector_triple
    \/ call_volume_parallelepiped
    \/ call_height_from_C_to_AB

SpecOps == OpInit /\ [][OpNext]_vars

\* every value computed is one the model can represent
VectorValued == {"unit", "cross", "proj", "rejection", "vector_triple"}

OpRepresentable ==
    (op_res # <<>> /\ op_res[1].exc = "") =>
        LET val == op_res[1].val
        IN  IF op_fn \in VectorValued THEN \A i \in 1..Len(val) : val[i] # Unrep
            ELSE IF op_fn = "angle" THEN val.acos # Unrep
            ELSE IF op_fn = "height_from_C_to_AB"
                 THEN val[1] # Unrep /\ val[2][1] # Unrep /\ val[2][2] # Unrep
            ELSE val # Unrep

-----------------------------------------------------------------------------
(* Claims about the vector operations                                      *)

\* the call has been made and its operands are the vectors u, v (, w)
OpDone(names) == op_pc = "done" /\ op_fn \in names

Is3D(v) == Len(v) = 3

\* the call raised the ValueError cross raises for a wrong dimension
RaisedCrossError ==
    op_res[1].exc = "ValueError" /\ op_res[1].msg = MsgCrossDefined

\* C12: dot, proj, rejection and distance applied to two vectors of
\* different dimension fail with an error instead of returning a value.
C12_MixedDimensionIsRejected ==
    (OpDone({"dot", "proj", "rejection", "distance"})
        /\ Len(op_args[1]) # Len(op_args[2]))
    => op_res[1].exc # ""

\* component i of the standard cross product, by cyclic indices
StdCross(u, v, i) ==
    LET j == (i % 3) + 1
        k == (j % 3) + 1
    IN  Sub(Mul(u[j], v[k]), Mul(u[k], v[j]))

\* C13: cross fails with its domain error exactly when an operand is not
\* 3-dimensional and otherwise returns the standard cross product;
\* scalar_triple, area_parallelogram, area_triangle and
\* volume_parallelepiped fail with the same error on any non-3D operand.
C13_CrossFamilyNeeds3D ==
    /\ OpDone({"cross"}) =>
         IF Is3D(op_args[1]) /\ Is3D(op_args[2])
         THEN /\ op_res[1].exc = ""
              /\ \A i \in 1..3 :
                    op_res[1].val[i] = StdCross(op_args[1], op_args[2], i)
         ELSE RaisedCrossError
    /\ OpDone({"scalar_triple", "area_parallelogram", "area_triangle",
               "volume_parallelepiped"}) =>
         ((\E i \in 1..Len(op_args) : ~Is3D(op_args[i])) => RaisedCrossError)

\* C14: vector_triple fails with the ValueError of cross whenever one of
\* its operands is not 3-dimensional.
C14_VectorTripleNeeds3D ==
    (OpDone({"vector_triple"}) /\ \E i \in 1..3 : ~Is3D(op_args[i]))
    => RaisedCrossError

\* vector_triple has returned for three 3D operands
VectorTripleOf3D ==
    /\ OpDone({"vector_triple"})
    /\ \A i \in 1..3 : Is3D(op_args[i])

\* C15: for 3D u, v, w, vector_triple(u, v, w) equals cross(u, cross(v, w))
\* component by component.
C15_VectorTripleIsIteratedCross ==
    VectorTripleOf3D =>
        /\ op_res[1].exc = ""
        /\ op_res[1].val = cross(op_args[1], cross(op_args[2], op_args[3]))

C15_Witness ==
    /\ VectorTripleOf3D
    /\ op_args = <<V(<<1, 2, 3>>), V(<<2, 4, 6>>), V(<<0, 0, 1>>)>>
    /\ op_res[1].val = V(<<6, 12, -10>>)

\* cross has returned for two 3D operands
CrossOf3D ==
    /\ OpDone({"cross"})
    /\ Is3D(op_args[1]) /\ Is3D(op_args[2])
    /\ op_res[1].exc = ""

\* C16: for 3D u, v, cross(u, v) is the component-wise negation of
\* cross(v, u), and dot(u, cross(u, v)) = 0.
C16_CrossAnticommutesAndIsOrthogonal ==
    CrossOf3D =>
        /\ \A i \in 1..3 :
              op_res[1].val[i] = Neg(cross(op_args[2], op_args[1])[i])
        /\ dot(op_args[1], op_res[1].val) = Zero

C16_Witness ==
    /\ CrossOf3D
    /\ op_args = <<V(<<1, 1, 0>>), V(<<0, 1, 1>>)>>
    /\ op_res[1].val = V(<<1, -1, 1>>)

\* magnitude(v) < 1e-10, said of the squares
BelowEps(v) == Lt(SumSq(v, 1), Mk(1, 1, -20, 1))

SameDim == \A i \in 1..Len(op_args) : Len(op_args[i]) = Len(op_args[1])

\* C17: unit, proj, comp and rejection fail with a domain error exactly
\* when magnitude(v) < 1e-10, angle exactly when that holds of u or of v;
\* for every other input of matching dimension they return a value.
C17_ZeroVectorIsTheOnlyFailure ==
    /\ OpDone({"unit"}) =>
         /\ op_res[1].exc # "" <=> BelowEps(op_args[1])
         /\ op_res[1].exc \in {"", "ValueError"}
    /\ (OpDone({"proj", "comp", "rejection"}) /\ SameDim) =>
         /\ op_res[1].exc # "" <=> BelowEps(op_args[2])
         /\ op_res[1].exc \in {"", "ValueError"}
    /\ (OpDone({"angle"}) /\ SameDim) =>
         /\ op_res[1].exc # "" <=> (BelowEps(op_args[1]) \/ BelowEps(op_args[2]))
         /\ op_res[1].exc \in {"", "ValueError"}

C17_Witness ==
    /\ OpDone({"comp"})
    /\ op_args = <<V(<<0, 1>>), <<Mk(1, 1, -11, 1), Zero>>>>
    /\ op_res[1].exc = "ValueError"

\* rejection has returned for operands of equal dimension
RejectionDone ==
    /\ OpDone({"rejection"})
    /\ SameDim
    /\ ~BelowEps(op_args[2])

-----------------------------------------------------------------------------
(* Claims about height_from_C_to_AB                                        *)

HeightCalled == OpDone({"height_from_C_to_AB"})

\* the call returned (height, H) with H on the line AB, CH perpendicular to
\* AB, and height both the quotient of the claim and the length of CH
HeightAsStated(A, B, C, res) ==
    /\ res.exc = ""
    /\ LET height == res.val[1]
           H == res.val[2]
       IN  /\ cross_product(vector(A, B), vector(A, H)) = Zero
           /\ dot_product(vector(C, H), vector(A, B)) = Zero
           /\ height = Div(NAbs(Sub(Mul(Sub(B[1], A[1]), Sub(C[2], A[2])),
                                    Mul(Sub(B[2], A[2]), Sub(C[1], A[1])))),
                           point_distance(A, B))
           /\ height = point_distance(C, H)

DocumentedTriangle == <<V(<<0, 0>>), V(<<4, 0>>), V(<<1, 3>>)>>

HeightOfDocumentedTriangle ==
    (HeightCalled /\ op_args = DocumentedTriangle) =>
        (op_res[1].exc = "" /\ op_res[1].val[1] = Int2Num(3))

\* C20 as stated: for any A # B and any C, height_from_C_to_AB(A,B,C)
\* returns (height, H) where H is the orthogonal projection of C on the line
\* AB and height = |(Bx-Ax)(Cy-Ay) - (By-Ay)(Cx-Ax)| / |AB| is the length of
\* CH; for A=(0,0), B=(4,0), C=(1,3) the height is 3.
C20_HeightForDistinctBasePoints ==
    /\ (HeightCalled /\ op_args[1] # op_args[2]) =>
           HeightAsStated(op_args[1], op_args[2], op_args[3], op_res[1])
    /\ HeightOfDocumentedTriangle

\* C20 (amended): for any A, B with |AB| >= 1e-10 and any C,
\* height_from_C_to_AB(A,B,C) returns (height, H) where H is the orthogonal
\* projection of C on the line AB and height =
\* |(Bx-Ax)(Cy-Ay) - (By-Ay)(Cx-Ax)| / |AB| is the length of CH; for
\* A=(0,0), B=(4,0), C=(1,3) the height is 3.
C20_HeightForLongEnoughBase ==
    /\ (HeightCalled /\ Ge(point_distance(op_args[1], op_args[2]), Eps10)) =>
           HeightAsStated(op_args[1], op_args[2], op_args[3], op_res[1])
    /\ HeightOfDocumentedTriangle

C20_Witness ==
    /\ HeightCalled
    /\ op_args = <<V(<<0, 0>>), <<Eps10, Zero>>, V(<<1, 1>>)>>
    /\ op_res[1].exc = ""
    /\ op_res[1].val = <<One, V(<<1, 0>>)>>

-----------------------------------------------------------------------------
(* triangle_height.py: main.  The six coordinates are read, the sides are  *)
(* measured and tested, and the height is computed and reported up to the  *)
(* plot prompt; plot_triangle_with_height only draws.                      *)

\* the coordinates typed at the six prompts
MaxTh == 3
ThCoord == {Int2Num(i) : i \in 0..MaxTh}

\* a line typed at a prompt: a numeral, nothing, or no numeral
ThNumber(x) == [form |-> "number", val |-> x]
ThEmpty == [form |-> "empty", val |-> Zero]
ThGarbage == [form |-> "garbage", val |-> Zero]

ThTyped ==
    {[i \in 1..6 |-> ThNumber(c[i])] : c \in [1..6 -> ThCoord]}
    \cup {[i \in 1..6 |-> ThEmpty]}
    \cup {[i \in 1..6 |-> IF i = k THEN ThGarbage ELSE ThEmpty] : k \in 1..6}

ThDefaults == V(<<0, 0, 4, 0, 1, 3>>)

\* float(input(...) or default)
Coordinate(line, default) == IF line.form = "empty" THEN default ELSE line.val

\* the natural number a float holds
NumInt(x) == x[1] * Pow10(x[3])

\* math.sqrt of every squared distance between the points typed
MaxRadicand == IF MaxTh < 4 THEN 32 ELSE 2 * MaxTh * MaxTh
DSqrtTable == [n \in 0..MaxRadicand |-> DSqrt(n)]

\* the double distance(p1, p2) returns, for points with integer coordinates
Double(x) == DSqrtTable[NumInt(Sq(x))]

\* AB + BC <= CA or AB + CA <= BC or BC + CA <= AB
ThInvalid(AB, BC, CA) ==
    \/ DLe(DAdd(AB, BC), CA)
    \/ DLe(DAdd(AB, CA), BC)
    \/ DLe(DAdd(BC, CA), AB)

ThAnswers == {"y", "yes", "n", ""}

ThShown == <<"Triangle vertices", "Side lengths">>
ThRejected == <<"Invalid triangle: The points are collinear or too close.",
                "Triangle inequality violated">>
ThFailed == <<"Error", "Please enter valid numerical coordinates.">>
ThReported == <<"HEIGHT CALCULATION", "Step-by-step calculation",
                "Verification using area">>
ThClosing == <<"Key insight", "Calculation complete!">>

ThInit ==
    /\ ThStart
    /\ FnIdle /\ VmStart /\ LmStart /\ OpIdle /\ SmStart /\ SlStart

main_vertices ==
    /\ th_pc = "input"
    /\ \E typed \in ThTyped :
         IF \E i \in 1..6 : typed[i].form = "garbage"
         THEN /\ th_res' = <<Gives(<<"ValueError", MsgNotFloat>>, <<>>)>>
              /\ th_out' = ThFailed
              /\ th_pc' = "done"
              /\ UNCHANGED <<th_pts, th_sides, th_calls>>
         ELSE LET c == [i \in 1..6 |-> Coordinate(typed[i], ThDefaults[i])]
                  A == <<c[1], c[2]>>
                  B == <<c[3], c[4]>>
                  C == <<c[5], c[6]>>
                  AB == Double(point_distance(A, B))
                  BC == Double(point_distance(B, C))
                  CA == Double(point_distance(C, A))
                  fails == height_from_C_to_AB_fails(A, B, C)
              IN  /\ th_pts' = <<A, B, C>>
                  /\ th_sides' = <<AB, BC, CA>>
                  /\ IF ThInvalid(AB, BC, CA)
                     THEN /\ th_calls' = th_calls
                          /\ th_res' = th_res
                          /\ th_out' = ThShown \o ThRejected
                          /\ th_pc' = "done"
                     ELSE /\ th_calls' = Append(th_calls, <<A, B, C>>)
                          /\ th_res' = <<Gives(fails, height_from_C_to_AB(A, B, C))>>
                          /\ th_out' = ThShown \o (IF fails = <<>> THEN ThReported
                                                   ELSE ThFailed)
                          /\ th_pc' = IF fails = <<>> THEN "plot" ELSE "done"
    /\ UNCHANGED <<fn_vars, vm_vars, lm_vars, op_vars, sm_vars, sl_vars>>

main_plot ==
    /\ th_pc = "plot"
    /\ \E answer \in ThAnswers :
         th_out' = th_out \o (IF answer \in {"y", "yes"} THEN <<"Plot window opened">>
                              ELSE <<>>) \o ThClosing
    /\ th_pc' = "done"
    /\ UNCHANGED <<th_pts, th_sides, th_calls, th_res>>
    /\ UNCHANGED <<fn_vars, vm_vars, lm_vars, op_vars, sm_vars, sl_vars>>

ThNext ==
    \/ main_vertices
    \/ main_plot

SpecTH == ThInit /\ [][ThNext]_vars

-----------------------------------------------------------------------------
(* Claims about triangle_height main                                       *)

Collinear(p) == cross_product(vector(p[1], p[2]), vector(p[1], p[3])) = Zero

ThVerticesRead == th_pts # <<>>

\* C19: in triangle_height main, any three collinear vertices (including
\* two or three coincident vertices) are reported as an invalid triangle and
\* main returns before the height computation: height_from_C_to_AB is
\* never called with collinear points, so in particular never with A = B.
C19_CollinearVerticesAreRejected ==
    /\ (ThVerticesRead /\ Collinear(th_pts)) =>
           /\ th_pc = "done"
           /\ th_out = ThShown \o ThRejected
           /\ th_calls = <<>>
    /\ \A i \in 1..Len(th_calls) :
           ~Collinear(th_calls[i]) /\ th_calls[i][1] # th_calls[i][2]

\* what does hold: a base of two coincident points never reaches
\* height_from_C_to_AB, and no triangle is turned away
ThCoincidentBaseIsRejected ==
    \A i \in 1..Len(th_calls) : th_calls[i][1] # th_calls[i][2]

ThTrianglesAreAccepted ==
    (ThVerticesRead /\ ~Collinear(th_pts)) =>
        (th_calls = <<th_pts>> /\ th_res[1].exc = "")

-----------------------------------------------------------------------------
(* straight_line_on_the_plane.py: one line is read in one of ten forms and *)
(* drawn                                                                   *)

NumEntries == 10

\* choice 4 with the coefficients of x and y exchanged
intercept_branch_swapped(a, b) == <<a, b, Mul(Neg(a), b)>>

\* the branch of choice 4: x/a + y/b = 1
intercept_branch(a, b) == <<b, a, Mul(Neg(a), b)>>

\* the triple (A, B, C) get_input_and_compute builds for a choice in 1..10
\* from the numbers q typed at its prompts; angles are whole degrees
get_input_and_compute(choice, q) ==
    CASE choice = 1 -> <<q[3], MinusOne, Sub(q[2], Mul(q[3], q[1]))>>
      [] choice = 2 ->
           IF q[1] = q[3] THEN <<One, Zero, Neg(q[1])>>
           ELSE LET m == Div(Sub(q[4], q[2]), Sub(q[3], q[1]))
                IN  <<m, MinusOne, Sub(q[2], Mul(m, q[1]))>>
      [] choice = 3 -> <<q[1], MinusOne, q[2]>>
      [] choice = 4 -> intercept_branch(q[1], q[2])
      [] choice = 5 ->
           LET m == TanDeg(NumInt(q[3]))
           IN  <<m, MinusOne, Sub(q[2], Mul(m, q[1]))>>
      [] choice = 6 -> <<CosDeg(NumInt(q[2])), SinDeg(NumInt(q[2])), Neg(q[1])>>
      [] choice = 7 -> <<q[1], q[2], q[3]>>
      [] choice = 8 -> <<One, Zero, Neg(q[1])>>
      [] choice = 9 -> <<Zero, One, Neg(q[1])>>
      [] choice = 10 -> <<q[1], q[2], q[3]>>

\* what plot_line_from_general raises: -C / A with A = 0
plot_line_from_general_fails(A, B, C) ==
    IF Lt(NAbs(B), Eps9) /\ IsZero(A) THEN <<"ZeroDivisionError", MsgDivZero>>
    ELSE <<>>

\* what plot_line_from_general draws
plot_line_from_general(A, B, C) ==
    IF Lt(NAbs(B), Eps9) THEN Line("axvline", "", <<Div(Neg(C), A)>>)
    ELSE IF Lt(NAbs(A), Eps9) THEN Line("axhline", "", <<Div(Neg(C), B)>>)
    ELSE Line("plot", "",
              << Div(Sub(Mul(Neg(A), Int2Num(-10)), C), B),
                 Div(Sub(Mul(Neg(A), Int2Num(10)), C), B) >>)

\* the numbers typed at the prompts of a choice
SlInputs(choice) ==
    CASE choice \in {1, 3, 8, 9} ->
           LET n == CASE choice = 1 -> 3 [] choice = 3 -> 2 [] OTHER -> 1
           IN  [1..n -> LmInts]
      [] choice = 2 -> [1..4 -> LmInts] \cup {V(e) : e \in ExamplePoints}
      [] choice = 4 -> [1..2 -> LmInts \cup {Tiny}]
      [] choice = 5 -> {<<x0, y0, Int2Num(alpha)>> :
                            x0 \in LmInts, y0 \in LmInts, alpha \in TanAngles}
      [] choice = 6 -> {<<Int2Num(p), Int2Num(alpha)>> :
                            p \in Distances, alpha \in NormalAngles}
      [] choice \in {7, 10} -> {<<A, B, C>> : A \in Coefficients, B \in Coefficients,
                                             C \in LmInts}

SlInit ==
    /\ SlStart
    /\ FnIdle /\ VmStart /\ LmStart /\ OpIdle /\ ThStart /\ SmStart

SlUnchanged == UNCHANGED <<fn_vars, vm_vars, lm_vars, op_vars, th_vars, sm_vars>>

\* get_input_and_compute: int(input(...)) and the dispatch on the choice
sl_select ==
    /\ sl_pc = "menu"
    /\ \E typed \in {"int", "text"}, choice \in 0..(NumEntries + 1) :
         IF typed = "text"
         THEN /\ sl_out' = Append(sl_out, Line("InputError", "invalid literal for int()", <<>>))
              /\ sl_pc' = "done"
              /\ UNCHANGED sl_choice
         ELSE IF ~(1 <= choice /\ choice <= NumEntries)
         THEN /\ sl_out' = Append(sl_out, Line("InvalidChoice", "", <<>>))
              /\ sl_pc' = "done"
              /\ sl_choice' = choice
         ELSE /\ sl_choice' = choice
              /\ sl_pc' = "case"
              /\ UNCHANGED sl_out
    /\ UNCHANGED <<sl_in, sl_line, sl_calls>>
    /\ SlUnchanged

\* float(input(...)) raises ValueError in the chosen branch
sl_bad_number ==
    /\ sl_pc = "case"
    /\ sl_out' = Append(sl_out, Line("InputError", MsgNotFloat, <<>>))
    /\ sl_pc' = "done"
    /\ UNCHANGED <<sl_choice, sl_in, sl_line, sl_calls>>
    /\ SlUnchanged

\* the chosen branch of get_input_and_compute, then main to its end
sl_compute_and_plot ==
    /\ sl_pc = "case"
    /\ \E q \in SlInputs(sl_choice) :
         LET l == get_input_and_compute(sl_choice, q)
             fails == plot_line_from_general_fails(l[1], l[2], l[3])
         IN  /\ sl_in' = q
             /\ sl_line' = l
             /\ sl_calls' = Append(sl_calls, l)
             /\ IF fails # <<>>
                THEN /\ sl_out' = Append(sl_out, Line("Traceback", fails[2], <<>>))
                     /\ sl_pc' = "crashed"
                ELSE /\ sl_out' = sl_out \o << plot_line_from_general(l[1], l[2], l[3]),
                                              Line("PlotReady", "", <<>>) >>
                     /\ sl_pc' = "done"
    /\ UNCHANGED sl_choice
    /\ SlUnchanged

SlNext ==
    \/ sl_select
    \/ sl_bad_number
    \/ sl_compute_and_plot

SpecSL == SlInit /\ [][SlNext]_vars

-----------------------------------------------------------------------------
(* Claims about straight_line_on_the_plane                                 *)

\* C28: in straight_line_on_the_plane, every triple (A,B,C) that main
\* passes to plot_line_from_general satisfies A # 0 or B # 0, for all ten
\* menu choices and all numeric inputs, so the program never terminates
\* with an unhandled division by zero.
C28_OnlyLinesArePlotted ==
    /\ \A i \in 1..Len(sl_calls) :
           ~(IsZero(sl_calls[i][1]) /\ IsZero(sl_calls[i][2]))
    /\ sl_pc # "crashed"

\* what the constructor of line_master for the same form does with the
\* numbers q
LineMasterCase(choice, q) ==
    CASE choice = 1 -> case_point_slope(q[1], q[2], q[3])
      [] choice = 2 -> case_two_points(q[1], q[2], q[3], q[4])
      [] choice = 3 -> case_slope_intercept(q[1], q[2])
      [] choice = 4 -> case_intercepts(q[1], q[2])
      [] choice = 5 -> case_angle_point(q[1], q[2], NumInt(q[3]))
      [] choice = 6 -> case_normal_form(q[1], NumInt(q[2]))
      [] choice = 7 -> case_general(q[1], q[2], q[3])
      [] choice = 8 -> case_vertical(q[1])
      [] choice = 9 -> case_horizontal(q[1])

SharedFormComputed == sl_line # <<>> /\ sl_choice \in 1..9

\* C29: for each of the nine input forms shared by line_master and
\* straight_line_on_the_plane and for every input that line_master's
\* constructor accepts, the corresponding branch of
\* straight_line_on_the_plane yields the same triple (A,B,C).
C29_DuplicatedConstructionsAgree ==
    (SharedFormComputed /\ LineMasterCase(sl_choice, sl_in).raises = <<>>)
        => sl_line = LineMasterCase(sl_choice, sl_in).line

C29_Witness ==
    /\ sl_choice = 4
    /\ sl_in = V(<<1, -1>>)
    /\ sl_line = V(<<-1, 1, 1>>)
    /\ LineMasterCase(sl_choice, sl_in).raises = <<>>

-----------------------------------------------------------------------------
(* calculus/limit_explorer.py and calculus/limit_builder.py: the table of  *)
(* samples of f near the limit point.  An expression is known by its text; *)
(* eval is modelled for the expressions below.                             *)

DefaultExpr == "tan(3*x)*(1 - exp(sin(5*x))) / (7*sqrt(1 + 5*x**2 + x**3) - 1)"
BigExpr == "10.0**200*10.0**200*x"

\* expressions clean_expr leaves as they are
SmExprs == {"x", "1/x", "sqrt(x)", "1/(x-1)", BigExpr}

\* eval(expr, ns) at x: the value, or that it raises
eval_expr(expr, x) ==
    LET value(v) == [raises |-> FALSE, val |-> v]
        raise == [raises |-> TRUE, val |-> NaN]
    IN  CASE expr = "x" -> value(x)
          [] expr = "1" -> value(One)
          [] expr = "1/x" -> IF IsZero(x) THEN raise ELSE value(Inv(x))
          [] expr = "sqrt(x)" -> IF Lt(x, Zero) THEN raise ELSE value(Sqrt(x))
          [] expr = "1/(x-1)" ->
               IF IsZero(Sub(x, One)) THEN raise ELSE value(Inv(Sub(x, One)))
          [] expr = BigExpr -> value(Mul(PInf, x))

\* limit_explorer: every "e" of the text is first replaced by the digits of
\* math.e, which leaves no Python expression when the text calls exp
f_eval(expr, x) ==
    IF expr = DefaultExpr THEN NaN
    ELSE IF eval_expr(expr, x).raises THEN NaN
    ELSE eval_expr(expr, x).val

\* limit_builder: f is (num) / (den), den a constant here
safe_eval(f, x) ==
    IF eval_expr(f.num, x).raises THEN NaN
    ELSE Div(eval_expr(f.num, x).val, f.den)

\* the line typed for the limit point
SmEntry(form, val) == [form |-> form, val |-> val]

\* limit_explorer main: the limit point, and whether "Invalid point" is shown
explorer_point(entry) ==
    CASE entry.form \in {"inf", "+inf"} -> [a |-> PInf, invalid |-> FALSE]
      [] entry.form \in {"-inf", "fragment"} -> [a |-> NInf, invalid |-> FALSE]
      [] entry.form = "empty" -> [a |-> Zero, invalid |-> FALSE]
      [] entry.form = "number" -> [a |-> entry.val, invalid |-> FALSE]
      [] entry.form = "garbage" -> [a |-> Zero, invalid |-> TRUE]

\* limit_builder main: the limit point
builder_point(entry) ==
    CASE entry.form \in {"inf", "+inf"} -> PInf
      [] entry.form = "-inf" -> NInf
      [] entry.form = "number" -> entry.val
      [] entry.form \in {"empty", "fragment", "garbage"} -> Zero

\* the k-th offset of show_table: h starts at 1.0 and is divided by 10
Offset(k) == Mk(1, 1, 1 - k, 1)

\* one pass of show_table's loop for a finite a, right side first
two_sided_right_first(a, h) == <<Add(a, h), Sub(a, h)>>

\* one pass of show_table's loop for a finite a: x_left, x_right
two_sided(a, h) == <<Sub(a, h), Add(a, h)>>

\* the k-th sample of show_table for an infinite a
growing(a, k) == IF a = PInf THEN Mk(1, 1, k, 1) ELSE Neg(Mk(1, 1, k, 1))

ExplorerSteps == 5
hs == [k \in 1..5 |-> Mk(1, 1, 1 - k, 1)]

\* one pass of limit_builder's loop over hs: x = a + side * h, side in [-1, 1]
builder_sides(a, h) == <<Add(a, Mul(MinusOne, h)), Add(a, Mul(One, h))>>

\* how limit_explorer prints f(x) with the format 20.8g
ShownG(fx) ==
    IF IsNaN(fx) THEN "nan"
    ELSE IF fx = PInf THEN "inf"
    ELSE IF fx = NInf THEN "-inf"
    ELSE "number"

explorer_row(expr, x) == Line("Row", ShownG(f_eval(expr, x)), <<x, f_eval(expr, x)>>)

builder_row(f, x) ==
    Line("Row", IF IsFinite(safe_eval(f, x)) THEN "number" ELSE "undefined",
         <<x, safe_eval(f, x)>>)

\* the limit points typed, and the step counts show_table is called with
MaxTarget == 1
MaxSteps == 3
SmTargets == {Int2Num(i) : i \in -MaxTarget..MaxTarget}
SmEntries ==
    {SmEntry("number", t) : t \in SmTargets}
    \cup {SmEntry(form, Zero) : form \in {"empty", "inf", "+inf", "-inf", "fragment",
                                          "garbage"}}

\* what is typed for A and C of the radical denominator: the default, or
\* text float() rejects
SmCoefficients == {"default", "garbage"}

SmInit ==
    /\ SmStart
    /\ FnIdle /\ VmStart /\ LmStart /\ OpIdle /\ ThStart /\ SlStart

SmUnchanged == UNCHANGED <<fn_vars, vm_vars, lm_vars, op_vars, th_vars, sl_vars>>

\* show_table(expr, a, steps) called directly: the header
call_show_table ==
    /\ sm_pc = "input"
    /\ \E expr \in SmExprs, a \in SmTargets \cup {PInf, NInf}, steps \in 1..MaxSteps :
         /\ sm_f' = <<expr>>
         /\ sm_a' = <<a>>
         /\ sm_steps' = steps
    /\ sm_prog' = "show_table"
    /\ sm_pc' = "table"
    /\ sm_out' = Append(sm_out, Line("TableHeader", "", <<>>))
    /\ UNCHANGED <<sm_entry, sm_k, sm_xs>>
    /\ SmUnchanged

\* limit_explorer main up to the call of show_table
explorer_read ==
    /\ sm_pc = "input"
    /\ \E typed \in SmExprs \cup {""}, entry \in SmEntries :
         LET point == explorer_point(entry)
         IN  /\ sm_f' = <<IF typed = "" THEN DefaultExpr ELSE typed>>
             /\ sm_entry' = <<entry>>
             /\ sm_a' = <<point.a>>
             /\ sm_out' = sm_out
                          \o (IF point.invalid
                              THEN <<Line("InvalidPoint", "Invalid point. Using 0.", <<>>)>>
                              ELSE <<>>)
                          \o <<Line("TableHeader", "", <<>>)>>
    /\ sm_steps' = ExplorerSteps
    /\ sm_prog' = "explorer"
    /\ sm_pc' = "table"
    /\ UNCHANGED <<sm_k, sm_xs>>
    /\ SmUnchanged

\* one pass of the loop of show_table
show_table_step ==
    /\ sm_pc = "table"
    /\ sm_prog \in {"show_table", "explorer"}
    /\ LET a == sm_a[1]
           xs == IF a \in {PInf, NInf} THEN <<growing(a, sm_k + 1)>>
                 ELSE two_sided(a, Offset(sm_k + 1))
       IN  /\ sm_xs' = sm_xs \o xs
           /\ sm_out' = sm_out \o [i \in 1..Len(xs) |-> explorer_row(sm_f[1], xs[i])]
    /\ sm_k' = sm_k + 1
    /\ sm_pc' = IF sm_k + 1 < sm_steps THEN "table"
                ELSE IF sm_prog = "explorer" THEN "after" ELSE "done"
    /\ UNCHANGED <<sm_prog, sm_f, sm_a, sm_entry, sm_steps>>
    /\ SmUnchanged

\* limit_explorer main after show_table: the plot prompt and the tip
explorer_finish ==
    /\ sm_pc = "after"
    /\ sm_prog = "explorer"
    /\ \E plot \in BOOLEAN :
         sm_out' = sm_out \o (IF plot THEN <<Line("Plot", "", <<>>)>> ELSE <<>>)
                          \o <<Line("Tip", "At x->0, your example -> 0", <<>>)>>
    /\ sm_pc' = "done"
    /\ UNCHANGED <<sm_prog, sm_f, sm_a, sm_entry, sm_steps, sm_k, sm_xs>>
    /\ SmUnchanged

\* limit_builder main up to the table: the limit point, the numerator and
\* the denominator (a radical form with B(x) = 1, or the expression 1)
builder_read ==
    /\ sm_pc = "input"
    /\ \E entry \in SmEntries, num \in SmExprs, den_type \in {"1", "2"},
          A \in SmCoefficients, C \in SmCoefficients :
         /\ sm_entry' = <<entry>>
         /\ sm_a' = <<builder_point(entry)>>
         /\ IF den_type = "1" /\ "garbage" \in {A, C}
            THEN /\ sm_out' = Append(sm_out, Line("Traceback", MsgNotFloat, <<>>))
                 /\ sm_pc' = "crashed"
                 /\ UNCHANGED sm_f
            ELSE /\ sm_f' = <<[num |-> num,
                               den |-> IF den_type = "1"
                                       THEN Add(Mul(Int2Num(7), Sqrt(One)), Int2Num(-1))
                                       ELSE One]>>
                 /\ sm_out' = Append(sm_out, Line("TableHeader", "", <<>>))
                 /\ sm_pc' = "table"
    /\ sm_steps' = Len(hs)
    /\ sm_prog' = "builder"
    /\ UNCHANGED <<sm_k, sm_xs>>
    /\ SmUnchanged

\* one pass of the loop over hs of limit_builder main
builder_step ==
    /\ sm_pc = "table"
    /\ sm_prog = "builder"
    /\ LET xs == builder_sides(sm_a[1], hs[sm_k + 1])
       IN  /\ sm_xs' = sm_xs \o xs
           /\ sm_out' = sm_out \o [i \in 1..Len(xs) |-> builder_row(sm_f[1], xs[i])]
    /\ sm_k' = sm_k + 1
    /\ sm_pc' = IF sm_k + 1 < Len(hs) THEN "table" ELSE "after"
    /\ UNCHANGED <<sm_prog, sm_f, sm_a, sm_entry, sm_steps>>
    /\ SmUnchanged

\* limit_builder main after the table
builder_finish ==
    /\ sm_pc = "after"
    /\ sm_prog = "builder"
    /\ sm_out' = sm_out \o (IF IsZero(sm_a[1])
                            THEN <<Line("Insight", "So limit = 0/6 = 0", <<>>)>>
                            ELSE <<>>)
    /\ sm_pc' = "done"
    /\ UNCHANGED <<sm_prog, sm_f, sm_a, sm_entry, sm_steps, sm_k, sm_xs>>
    /\ SmUnchanged

SmNext ==
    \/ call_show_table
    \/ explorer_read
    \/ show_table_step
    \/ explorer_finish
    \/ builder_read
    \/ builder_step
    \/ builder_finish

SpecSM == SmInit /\ [][SmNext]_vars

-----------------------------------------------------------------------------
(* Claims about the samplers                                               *)

SmRows == SelectSeq(sm_out, LAMBDA l : l.kind = "Row")
SmTableBegun == sm_pc \in {"table", "after", "done"}
SmTableFinished == sm_pc \in {"after", "done"}
SmFinite == SmTableBegun /\ IsFinite(sm_a[1])
SmInfinite == SmTableBegun /\ sm_a[1] \in {PInf, NInf}

\* the j-th sample of the two-sided trace at a: a - h_k for j = 2k - 1 and
\* a + h_k for j = 2k, with h_k = 10^-(k-1)
TwoSidedSample(a, j) ==
    LET k == (j + 1) \div 2
        h_k == Mk(1, 1, -(k - 1), 1)
    IN  IF j % 2 = 1 THEN Sub(a, h_k) ELSE Add(a, h_k)

\* C21: for a finite target a and step count n, each sampler evaluates f at
\* a - h_1, a + h_1, ..., a - h_n, a + h_n in this order, h_k = 10^-(k-1),
\* one row per sample, and the finished table has exactly 2n samples
C21_TwoSidedTraceInOrder ==
    SmFinite =>
        /\ Len(sm_xs) = 2 * sm_k
        /\ \A j \in 1..Len(sm_xs) : sm_xs[j] = TwoSidedSample(sm_a[1], j)
        /\ Len(SmRows) = Len(sm_xs)
        /\ \A j \in 1..Len(sm_xs) : SmRows[j].v[1] = sm_xs[j]
        /\ SmTableFinished => Len(sm_xs) = 2 * sm_steps

\* a = 0, n = 3: the samples are -1, 1, -0.1, 0.1, -0.01, 0.01
C21_Witness ==
    /\ sm_prog = "show_table"
    /\ sm_pc = "done"
    /\ sm_a = <<Zero>>
    /\ sm_steps = 3
    /\ sm_xs = <<Mk(-1, 1, 0, 1), Mk(1, 1, 0, 1), Mk(-1, 1, -1, 1), Mk(1, 1, -1, 1),
                 Mk(-1, 1, -2, 1), Mk(1, 1, -2, 1)>>

\* C22: for a target of +inf or -inf each sampler evaluates f at the finite
\* points +10^k (respectively -10^k), k = 1..n, exactly n of them in the
\* finished table, and at no x that is not finite
C22_GrowingFinitePoints ==
    SmInfinite =>
        /\ \A j \in 1..Len(sm_xs) :
              /\ IsFinite(sm_xs[j])
              /\ sm_xs[j] = (IF sm_a[1] = PInf THEN Mk(1, 1, j, 1)
                             ELSE Neg(Mk(1, 1, j, 1)))
        /\ SmTableFinished => Len(sm_xs) = sm_steps

\* C23: every sample point has its row, and the row of a point where f
\* raises or is not finite shows "undefined", never a number
C23_FailingPointsShowUndefined ==
    SmTableBegun =>
        /\ sm_pc # "crashed"
        /\ Len(SmRows) = Len(sm_xs)
        /\ \A j \in 1..Len(SmRows) :
              /\ SmRows[j].v[1] = sm_xs[j]
              /\ ~IsFinite(SmRows[j].v[2]) => SmRows[j].s = "undefined"

\* C24: nothing a sampler script prints states a value of the limit; about
\* the limit it prints the rows of the table only
C24_NoLimitValueIsClaimed ==
    \A i \in 1..Len(sm_out) : sm_out[i].kind \notin {"Tip", "Insight"}

\* C25: a malformed limit-point entry is answered by an error message and
\* the table is not computed: no default is substituted for the entry
C25_MalformedEntryAborts ==
    (sm_entry # <<>> /\ sm_entry[1].form \in {"garbage", "fragment"}) =>
        /\ \E i \in 1..Len(sm_out) : sm_out[i].kind = "InvalidPoint"
        /\ sm_a = <<>>
        /\ SmRows = <<>>
        /\ ~SmTableBegun

-----------------------------------------------------------------------------
(* Claims about the prompts and the report of vector_master main           *)

\* a malformed vector entry ends get_vectors: it is not asked for again
VmMalformedVectorAborts ==
    (vm_out # <<>> /\ vm_out[Len(vm_out)].kind \in {"TryAgain", "MustBeDim"}) =>
        vm_pc # "get"

\* C26: the success line is printed only after perform_operation returned
\* True; after an operation that ended in an error the error message is the
\* last line and no success line follows it
C26_SuccessOnlyAfterSuccess ==
    /\ (\E i \in 1..Len(vm_out) : vm_out[i].kind = "Success") => vm_ret = <<TRUE>>
    /\ (vm_pc = "done" /\ vm_ret = <<FALSE>>) => vm_out[Len(vm_out)].kind = "Error"

\* get_vectors holds as many vectors as main asked for
VmEnoughVectors == vm_count > 0 /\ Len(vm_vectors) = vm_count

\* C27: get_vectors has returned as soon as it holds as many vectors as were
\* asked for, every vector it returns has dimension 2 or 3, and all vectors
\* of one call have the same dimension
C27_ReturnedVectorsAre2DOr3D ==
    VmEnoughVectors =>
        /\ vm_pc # "get"
        /\ \A i \in 1..Len(vm_vectors) : Len(vm_vectors[i]) \in {2, 3}
        /\ \A i, j \in 1..Len(vm_vectors) : Len(vm_vectors[i]) = Len(vm_vectors[j])

=============================================================================
